---- MODULE Spec2Model ----
(***************************************************************************)
(* docdiff: node matcher (compare/engine.py), hierarchy builder            *)
(* (export/hierarchy_builder.py), adaptive batch optimizer                 *)
(* (ai/adaptive_optimizer.py, ai/token_estimator.py), its context manager  *)
(* (ai/context_manager.py) and the JSON export (workflow/exporter.py).     *)
(*                                                                         *)
(* Text is a sequence of characters drawn from a small alphabet.  A float  *)
(* similarity in [0.0, 1.0] is held in millionths, truncated, which makes  *)
(* every threshold test of the engine (> 0.95, < 0.3, >= 0.8, and the 1.2  *)
(* boost) come out as the double-precision code does.                      *)
(***************************************************************************)
EXTENDS Integers, Sequences, FiniteSets, TLC

VARIABLES
    source_nodes,   \* argument of _create_node_mappings
    target_nodes,   \* argument of _create_node_mappings
    mappings,       \* the list of NodeMapping built so far
    used_targets,   \* ids of the target nodes already linked
    coverage_stats, \* the counts compare() derives from the mappings
    pc,             \* position of the pipeline
    hierarchy,      \* DocumentHierarchy.files, in insertion order
    config,         \* the sizes the optimizer was constructed with
    _batch_counter, \* AdaptiveBatchOptimizer._batch_counter
    stage,          \* state of the optimizer run
    file_idx,       \* the file optimize_hierarchy is at
    groups,         \* the groups of that file, semantic then merged
    all_batches,    \* optimize_hierarchy's all_batches
    _metrics,       \* AdaptiveBatchOptimizer._metrics
    returned,       \* what the optimize_hierarchy calls returned, in order
    current_id,     \* id of `current` in the loop of _find_parent_section
    _file_groups,   \* HierarchyBuilder._file_groups, in insertion order
    runs,           \* the build_hierarchy calls in progress on one builder
    context_window, \* the option context_window, HierarchyBuilder.context_window
    contexts        \* the NodeContext of the nodes of hierarchy, file by file

matcher_vars == <<source_nodes, target_nodes, mappings, used_targets,
                  coverage_stats>>
optimizer_vars == <<config, _batch_counter, stage, file_idx, groups,
                    all_batches, _metrics, returned>>
shared_vars == <<current_id, _file_groups, runs, context_window, contexts>>
vars == <<source_nodes, target_nodes, mappings, used_targets, coverage_stats,
          pc, hierarchy, config, _batch_counter, stage, file_idx, groups,
          all_batches, _metrics, returned, current_id, _file_groups, runs, context_window,
          contexts>>

(***************************************************************************)
(* Bounds                                                                  *)
(***************************************************************************)
MaxSrc == 2
MaxTgt == 2
MaxNodes == 3

(***************************************************************************)
(* Helpers                                                                 *)
(***************************************************************************)
Min(x, y) == IF x <= y THEN x ELSE y
Max(x, y) == IF x >= y THEN x ELSE y

\* Python's None for an optional DocumentNode
None == [id |-> 0]

\* file paths, as pathlib parts
EnA == <<"docs", "en", "a.md">>
EnB == <<"docs", "en", "b.md">>
JaA == <<"docs", "ja", "a.md">>
JaB == <<"docs", "ja", "b.md">>

(***************************************************************************)
(* difflib.SequenceMatcher(None, a, b).ratio() for texts shorter than 200  *)
(* characters (no autojunk): the longest common block, earliest in a then  *)
(* earliest in b, then the same to its left and to its right.              *)
(***************************************************************************)
CommonBlocks(a, b) ==
    {t \in (1..Len(a)) \X (1..Len(b)) \X (1..Min(Len(a), Len(b))) :
        /\ t[1] + t[3] - 1 <= Len(a)
        /\ t[2] + t[3] - 1 <= Len(b)
        /\ SubSeq(a, t[1], t[1] + t[3] - 1) = SubSeq(b, t[2], t[2] + t[3] - 1)}

find_longest_match(a, b) ==
    CHOOSE t \in CommonBlocks(a, b) :
        \A u \in CommonBlocks(a, b) :
            \/ t[3] > u[3]
            \/ t[3] = u[3] /\ t[1] < u[1]
            \/ t[3] = u[3] /\ t[1] = u[1] /\ t[2] <= u[2]

RECURSIVE matching_chars(_, _)
matching_chars(a, b) ==
    IF CommonBlocks(a, b) = {} THEN 0
    ELSE LET t == find_longest_match(a, b)
         IN  t[3]
             + matching_chars(SubSeq(a, 1, t[1] - 1), SubSeq(b, 1, t[2] - 1))
             + matching_chars(SubSeq(a, t[1] + t[3], Len(a)),
                              SubSeq(b, t[2] + t[3], Len(b)))

\* ratio(): 2.0 * matches / (len(a) + len(b)), in millionths
ratio(a, b) == (2 * matching_chars(a, b) * 1000000) \div (Len(a) + Len(b))

\* ComparisonEngine._calculate_similarity
\* len_ratio < 0.3 is min/max < 3/10
_calculate_similarity(text1, text2) ==
    IF text1 = <<>> \/ text2 = <<>> THEN 0
    ELSE IF 10 * Min(Len(text1), Len(text2)) < 3 * Max(Len(text1), Len(text2))
         THEN 0
         ELSE ratio(text1, text2)

\* ComparisonEngine.similarity_threshold (0.8)
similarity_threshold == 800000
\* "nearly identical content" (0.95)
CopyThreshold == 950000
\* a similarity of 0.3 itself counted as "exact"
ExactThreshold_inclusive == 300000 + 1
\* below this a structural match is "exact" (0.3)
ExactThreshold == 300000

\* the path with the first two parts removed, or the file name
StripLang(parts) ==
    IF Len(parts) > 2 THEN SubSeq(parts, 3, Len(parts))
    ELSE <<parts[Len(parts)]>>

\* ComparisonEngine._are_corresponding_files
_are_corresponding_files(node1, node2) ==
    StripLang(node1.file_path) = StripLang(node2.file_path)

(***************************************************************************)
(* ComparisonEngine._build_node_index: a dict, so a later node with the    *)
(* same label (name) replaces the earlier one.  The "position:" entries    *)
(* share no key with the label and name entries and are never looked up    *)
(* by _create_node_mappings.                                               *)
(***************************************************************************)
LastIndexWith(nodes, field, value) ==
    LET S == {i \in 1..Len(nodes) : nodes[i][field] = value}
    IN  IF S = {} THEN 0 ELSE CHOOSE i \in S : \A j \in S : j <= i

_build_node_index(nodes) ==
    [field \in {"label", "name"} |->
        [value \in {nodes[i][field] : i \in 1..Len(nodes)} \ {0} |->
            nodes[LastIndexWith(nodes, field, value)]]]

\* the lookup without the test of used_targets
Lookup_ignoring_used(target_map, field, value, used) ==
    IF value \in DOMAIN target_map[field]
    THEN target_map[field][value]
    ELSE None

\* key in target_map and target_map[key].id not in used_targets
Lookup(target_map, field, value, used) ==
    IF value \in DOMAIN target_map[field]
       /\ target_map[field][value].id \notin used
    THEN target_map[field][value]
    ELSE None

\* the name looked up before the label
StructuralMatch_name_first(source_node, target_map, used) ==
    IF source_node.name # 0
    THEN Lookup(target_map, "name", source_node.name, used)
    ELSE IF source_node.label # 0
         THEN Lookup(target_map, "label", source_node.label, used)
         ELSE None

\* the structural_match of _create_node_mappings (label, elif name)
StructuralMatch(source_node, target_map, used) ==
    IF source_node.label # 0
    THEN Lookup(target_map, "label", source_node.label, used)
    ELSE IF source_node.name # 0
         THEN Lookup(target_map, "name", source_node.name, used)
         ELSE None

\* the similarity _find_fuzzy_match gives one candidate (20% boost, cap 1.0)
BoostedSimilarity(source_node, target_node) ==
    LET s == _calculate_similarity(source_node.content, target_node.content)
    IN  IF _are_corresponding_files(source_node, target_node)
        THEN Min((s * 12) \div 10, 1000000)
        ELSE s

\* the loop without the test of the node type
RECURSIVE FuzzyScan_any_kind(_, _, _, _, _)
FuzzyScan_any_kind(source_node, targets, used, k, best) ==
    IF k > Len(targets) THEN best
    ELSE LET t == targets[k]
             s == BoostedSimilarity(source_node, t)
         IN  IF t.id \in used
             THEN FuzzyScan_any_kind(source_node, targets, used, k + 1, best)
             ELSE IF s > best.similarity
                  THEN FuzzyScan_any_kind(source_node, targets, used, k + 1,
                                          [node |-> t, similarity |-> s])
                  ELSE FuzzyScan_any_kind(source_node, targets, used, k + 1,
                                          best)

\* ComparisonEngine._find_fuzzy_match: the loop over target_nodes[k..]
RECURSIVE FuzzyScan(_, _, _, _, _)
FuzzyScan(source_node, targets, used, k, best) ==
    IF k > Len(targets) THEN best
    ELSE LET t == targets[k]
             s == BoostedSimilarity(source_node, t)
         IN  IF t.id \in used \/ t.type # source_node.type
             THEN FuzzyScan(source_node, targets, used, k + 1, best)
             ELSE IF s > best.similarity
                  THEN FuzzyScan(source_node, targets, used, k + 1,
                                 [node |-> t, similarity |-> s])
                  ELSE FuzzyScan(source_node, targets, used, k + 1, best)

_find_fuzzy_match(source_node, targets, used) ==
    FuzzyScan(source_node, targets, used, 1, [node |-> None, similarity |-> 0])

\* the arguments of a link taken in the wrong order
NodeMapping_swapped(s, t, sim, type) ==
    [source_node |-> IF t = None THEN s ELSE t,
     target_node |-> IF t = None THEN t ELSE s,
     similarity |-> sim, mapping_type |-> type]

NodeMapping(s, t, sim, type) ==
    [source_node |-> s, target_node |-> t, similarity |-> sim,
     mapping_type |-> type]

\* the candidate kept as target of a mapping reported missing
MappingFor_keeping_copy(source_node, targets, target_map, used) ==
    LET structural_match == StructuralMatch(source_node, target_map, used)
    IN  IF structural_match # None
        THEN LET similarity == _calculate_similarity(source_node.content,
                                                     structural_match.content)
             IN  IF similarity > CopyThreshold
                 THEN NodeMapping(source_node, structural_match, similarity,
                                  "missing")
                 ELSE NodeMapping(source_node, structural_match, similarity,
                          IF similarity < ExactThreshold THEN "exact"
                          ELSE "fuzzy")
        ELSE LET best == _find_fuzzy_match(source_node, targets, used)
             IN  IF best.node # None /\ best.similarity >= similarity_threshold
                 THEN IF best.similarity > CopyThreshold
                      THEN NodeMapping(source_node, None, 0, "missing")
                      ELSE NodeMapping(source_node, best.node,
                                       best.similarity, "fuzzy")
                 ELSE NodeMapping(source_node, None, 0, "missing")

\* one iteration of the loop of _create_node_mappings: the mapping appended
\* for source_node and the target id added to used_targets (0: none)
MappingFor(source_node, targets, target_map, used) ==
    LET structural_match == StructuralMatch(source_node, target_map, used)
    IN  IF structural_match # None
        THEN LET similarity == _calculate_similarity(source_node.content,
                                                     structural_match.content)
             IN  IF similarity > CopyThreshold
                 THEN NodeMapping(source_node, None, 0, "missing")
                 ELSE NodeMapping(source_node, structural_match, similarity,
                          IF similarity < ExactThreshold THEN "exact"
                          ELSE "fuzzy")
        ELSE LET best == _find_fuzzy_match(source_node, targets, used)
             IN  IF best.node # None /\ best.similarity >= similarity_threshold
                 THEN IF best.similarity > CopyThreshold
                      THEN NodeMapping(source_node, None, 0, "missing")
                      ELSE NodeMapping(source_node, best.node,
                                       best.similarity, "fuzzy")
                 ELSE NodeMapping(source_node, None, 0, "missing")

(***************************************************************************)
(* Inputs of the matcher                                                   *)
(***************************************************************************)
SourceContents == {<<>>, <<"a", "b">>}
TargetContents == {<<>>, <<"a", "b">>, <<"a", "b", "a">>, <<"c">>}

DocumentNode(id, type, level, content, label, name, file_path, line) ==
    [id |-> id, type |-> type, level |-> level, content |-> content,
     label |-> label, name |-> name, file_path |-> file_path,
     line_number |-> line]

\* the i-th node of a source tree / target tree of one file pair
SourceShapes(i) ==
    {DocumentNode(i, "paragraph", 0, c, l, n, EnA, i) :
        c \in SourceContents, l \in {0, 1}, n \in {0, 1}}

TargetShapes(i) ==
    {DocumentNode(100 + i, "paragraph", 0, c, l, n, JaB, i) :
        c \in TargetContents, l \in {0, 1}, n \in {0, 1}}

NodeLists(Shapes(_), max) ==
    UNION {{f \in [1..n -> UNION {Shapes(i) : i \in 1..n}] :
                \A i \in 1..n : f[i] \in Shapes(i)} : n \in 0..max}

\* the number of mappings of the given types
CountType(ms, types) ==
    Cardinality({k \in 1..Len(ms) : ms[k].mapping_type \in types})

\* ComparisonEngine._calculate_coverage; the ratios in millionths
_calculate_coverage(ms) ==
    LET total == Len(ms)
        translated == Cardinality({k \in 1..Len(ms) :
                                      ms[k].target_node # None})
        exact == CountType(ms, {"exact"})
        fuzzy == CountType(ms, {"fuzzy"})
        missing == CountType(ms, {"missing"})
    IN  IF total = 0
        THEN [overall |-> 0,
              counts |-> [total |-> 0, translated |-> 0, missing |-> 0]]
        ELSE [overall |-> (translated * 1000000) \div total,
              exact_match |-> (exact * 1000000) \div total,
              fuzzy_match |-> (fuzzy * 1000000) \div total,
              missing |-> (missing * 1000000) \div total,
              counts |-> [total |-> total, translated |-> translated,
                          exact |-> exact, fuzzy |-> fuzzy,
                          missing |-> missing]]

\* compare() has not computed the coverage yet
NoCoverage == [computed |-> FALSE]

\* OptimizationMetrics(), the dataclass defaults
OptimizationMetrics ==
    [total_nodes |-> 0, total_batches |-> 0, avg_batch_size |-> 0,
     avg_utilization |-> 0, min_batch_tokens |-> 0, max_batch_tokens |-> 0,
     api_calls_saved |-> 0, token_reduction_percent |-> 0]

\* Python's None for TranslationNode.context
NoContext == [context |-> "None"]

\* no hierarchy built, no optimizer constructed
NoConfig == [target_batch_size |-> 0, min_batch_size |-> 0,
             max_batch_size |-> 0, source_lang |-> "none",
             enable_context |-> FALSE, context_window |-> 0]

DownstreamIdle ==
    /\ hierarchy = <<>>
    /\ config = NoConfig
    /\ _batch_counter = 0
    /\ stage = "none"
    /\ file_idx = 0
    /\ groups = <<>>
    /\ all_batches = <<>>
    /\ _metrics = OptimizationMetrics
    /\ returned = <<>>
    /\ current_id = 0
    /\ _file_groups = <<>>
    /\ runs = <<>>
    /\ context_window = 3
    /\ contexts = <<>>

MatcherInit ==
    /\ source_nodes \in NodeLists(SourceShapes, MaxSrc)
    /\ target_nodes \in NodeLists(TargetShapes, MaxTgt)
    /\ mappings = <<>>
    /\ used_targets = {}
    /\ coverage_stats = NoCoverage
    /\ pc = "matching"
    /\ DownstreamIdle

\* the loop consuming the structural candidate it looked at, linked or not
MatchNode_consuming_candidates ==
    /\ pc = "matching"
    /\ Len(mappings) < Len(source_nodes)
    /\ LET source_node == source_nodes[Len(mappings) + 1]
           target_map == _build_node_index(target_nodes)
           m == MappingFor(source_node, target_nodes, target_map,
                           used_targets)
           c == StructuralMatch(source_node, target_map, used_targets)
       IN  /\ mappings' = Append(mappings, m)
           /\ used_targets' = IF m.target_node # None
                              THEN used_targets \cup {m.target_node.id}
                              ELSE IF c # None
                                   THEN used_targets \cup {c.id}
                                   ELSE used_targets
    /\ UNCHANGED <<source_nodes, target_nodes, coverage_stats, pc, hierarchy>>
    /\ UNCHANGED optimizer_vars
    /\ UNCHANGED shared_vars

\* _create_node_mappings, one source node per step
MatchNode ==
    /\ pc = "matching"
    /\ Len(mappings) < Len(source_nodes)
    /\ LET source_node == source_nodes[Len(mappings) + 1]
           m == MappingFor(source_node, target_nodes,
                           _build_node_index(target_nodes), used_targets)
       IN  /\ mappings' = Append(mappings, m)
           /\ used_targets' = IF m.target_node # None
                              THEN used_targets \cup {m.target_node.id}
                              ELSE used_targets
    /\ UNCHANGED <<source_nodes, target_nodes, coverage_stats, pc, hierarchy>>
    /\ UNCHANGED optimizer_vars
    /\ UNCHANGED shared_vars

\* return mappings, and compare() computes the coverage of the mappings
MatchReturn ==
    /\ pc = "matching"
    /\ Len(mappings) = Len(source_nodes)
    /\ coverage_stats' = _calculate_coverage(mappings)
    /\ pc' = "matched"
    /\ UNCHANGED <<source_nodes, target_nodes, mappings, used_targets,
                   hierarchy>>
    /\ UNCHANGED optimizer_vars
    /\ UNCHANGED shared_vars

MatchNext == MatchNode \/ MatchReturn

SpecMatch == MatcherInit /\ [][MatchNext]_vars

(***************************************************************************)
(* Properties of the matcher                                               *)
(***************************************************************************)
Linked(m) == m.target_node # None

\* the consumed-target set when the i-th source node is reached
UsedBefore(i) == {mappings[j].target_node.id :
                    j \in {k \in 1..(i - 1) : Linked(mappings[k])}}

\* labels identify one node within a tree
UniqueLabels(nodes) ==
    \A i, j \in 1..Len(nodes) :
        (i # j /\ nodes[i].label # 0) => nodes[i].label # nodes[j].label

\* C1: the matcher returns one correspondence per source node, the i-th for
\* the i-th source node.
C1_OnePerSourceInOrder ==
    /\ Len(mappings) <= Len(source_nodes)
    /\ \A i \in 1..Len(mappings) : mappings[i].source_node = source_nodes[i]
    /\ pc = "matched" => Len(mappings) = Len(source_nodes)

C1_Witness ==
    /\ pc = "matched"
    /\ Len(mappings) = 2
    /\ Linked(mappings[1])
    /\ ~Linked(mappings[2])

\* C2: a source node whose structural candidate has identical content is
\* Missing, with no target and similarity 0.0, whatever the content.
C2_MissingOnIdentity ==
    \A i \in 1..Len(mappings) :
        LET c == StructuralMatch(source_nodes[i],
                                 _build_node_index(target_nodes), UsedBefore(i))
        IN  (c # None /\ c.content = source_nodes[i].content)
            => /\ mappings[i].mapping_type = "missing"
               /\ mappings[i].target_node = None
               /\ mappings[i].similarity = 0

\* C3 as claimed: same label and similarity <= 0.95 give Exact or Fuzzy
\* with that target, in trees whose labels are unique.
C3_TranslatedOnDivergence ==
    (UniqueLabels(source_nodes) /\ UniqueLabels(target_nodes)) =>
    \A i \in 1..Len(mappings) : \A k \in 1..Len(target_nodes) :
        (/\ source_nodes[i].label # 0
         /\ target_nodes[k].label = source_nodes[i].label
         /\ _calculate_similarity(source_nodes[i].content,
                                  target_nodes[k].content) <= 950000)
        => /\ mappings[i].mapping_type \in {"exact", "fuzzy"}
           /\ mappings[i].target_node = target_nodes[k]

\* C3 amended: the same, for the target node the label index resolves to,
\* provided no earlier source node has been linked to it.
C3_TranslatedUnlessConsumed ==
    \A i \in 1..Len(mappings) :
        LET index == _build_node_index(target_nodes)
            l == source_nodes[i].label
        IN  (/\ l # 0
             /\ l \in DOMAIN index["label"]
             /\ index["label"][l].id \notin UsedBefore(i)
             /\ _calculate_similarity(source_nodes[i].content,
                                      index["label"][l].content) <= 950000)
            => /\ mappings[i].mapping_type \in {"exact", "fuzzy"}
               /\ mappings[i].target_node = index["label"][l]

\* a labelled source node linked to the target of its label, both with text
C3_Witness ==
    \E i \in 1..Len(mappings) :
        /\ source_nodes[i].label # 0
        /\ source_nodes[i].name # 0
        /\ Linked(mappings[i])
        /\ mappings[i].target_node.label = source_nodes[i].label
        /\ mappings[i].target_node.name # source_nodes[i].name
        /\ mappings[i].mapping_type = "fuzzy"

\* C4: no target node is the target of two correspondences.
C4_TargetsLinkedOnce ==
    \A i, j \in 1..Len(mappings) :
        (i # j /\ Linked(mappings[i]) /\ Linked(mappings[j]))
        => mappings[i].target_node.id # mappings[j].target_node.id

\* two source nodes with the label of one target: the first takes it, the
\* second is linked to another target by the same-kind fallback
C4_Witness ==
    /\ Len(mappings) = 2
    /\ source_nodes[1].label # 0
    /\ source_nodes[2].label = source_nodes[1].label
    /\ Linked(mappings[1])
    /\ mappings[1].target_node.label = source_nodes[1].label
    /\ Linked(mappings[2])
    /\ mappings[2].target_node.label # source_nodes[2].label

\* C15: a correspondence has a target exactly when it is Exact or Fuzzy, a
\* Missing one has similarity 0.0, and the coverage counts satisfy
\* translated + missing = total and translated = exact + fuzzy (the counts
\* of an empty output carry total, translated and missing only, all 0).
C15_TargetIffTranslated ==
    /\ \A i \in 1..Len(mappings) :
          /\ mappings[i].mapping_type \in {"exact", "fuzzy", "missing"}
          /\ Linked(mappings[i]) <=> mappings[i].mapping_type \in {"exact", "fuzzy"}
          /\ mappings[i].mapping_type = "missing" => mappings[i].similarity = 0
    /\ pc = "matched" =>
          LET counts == coverage_stats.counts
          IN  /\ counts.total = Len(mappings)
              /\ counts.translated + counts.missing = counts.total
              /\ IF counts.total = 0
                 THEN counts.translated = 0
                 ELSE counts.translated = counts.exact + counts.fuzzy

\* an output holding a Missing copy and a translated node
C15_Witness ==
    /\ pc = "matched"
    /\ coverage_stats.counts.total = 2
    /\ coverage_stats.counts.translated = 1
    /\ \E i \in 1..2 :
          /\ mappings[i].mapping_type = "missing"
          /\ StructuralMatch(source_nodes[i], _build_node_index(target_nodes),
                             UsedBefore(i)) # None

\* C16: for a source node with a structural candidate the similarity s of
\* the two contents decides: s > 0.95 gives Missing without target,
\* 0.3 <= s <= 0.95 gives Fuzzy, s < 0.3 gives Exact, and in the last two
\* cases the candidate is the target and is consumed.
C16_SimilarityDecides ==
    \A i \in 1..Len(mappings) :
        LET c == StructuralMatch(source_nodes[i],
                                 _build_node_index(target_nodes), UsedBefore(i))
            s == _calculate_similarity(source_nodes[i].content, c.content)
            m == mappings[i]
        IN  c # None =>
            /\ s > 950000 => m.mapping_type = "missing" /\ m.target_node = None
            /\ (300000 <= s /\ s <= 950000) => m.mapping_type = "fuzzy"
            /\ s < 300000 => m.mapping_type = "exact"
            /\ s <= 950000 => /\ m.target_node = c
                              /\ m.similarity = s
                              /\ c.id \in UsedBefore(i + 1)
                              /\ c.id \in used_targets

\* one output with two structural matches, of similarity 0.3 and 0.95
C16_Witness ==
    /\ pc = "matched"
    /\ Len(mappings) = 2
    /\ \A i \in 1..2 :
          StructuralMatch(source_nodes[i], _build_node_index(target_nodes),
                          UsedBefore(i)) # None
    /\ mappings[1].mapping_type = "fuzzy"
    /\ mappings[1].similarity = 300000
    /\ mappings[2].mapping_type = "fuzzy"
    /\ mappings[2].similarity = 950000

\* structural matches that are Exact at 0.2 and Missing at 1.0
C16_WitnessOutside ==
    /\ pc = "matched"
    /\ Len(mappings) = 2
    /\ \A i \in 1..2 :
          StructuralMatch(source_nodes[i], _build_node_index(target_nodes),
                          UsedBefore(i)) # None
    /\ mappings[1].mapping_type = "exact"
    /\ mappings[1].similarity = 200000
    /\ mappings[2].mapping_type = "missing"

\* the first target node carrying a value in a field, None if there is none
FirstWith(nodes, field, value) ==
    LET S == {k \in 1..Len(nodes) : nodes[k][field] = value}
    IN  IF S = {} THEN None ELSE nodes[CHOOSE k \in S : \A j \in S : k <= j]

\* the mapping a structural candidate c gives the i-th source node
LinkedAsCandidate(i, c) ==
    LET s == _calculate_similarity(source_nodes[i].content, c.content)
    IN  IF s > 950000
        THEN mappings[i].mapping_type = "missing" /\ ~Linked(mappings[i])
        ELSE mappings[i].target_node = c

\* C17: a source node with a label and a name whose label no target node
\* carries has the target node sharing its name for structural candidate.
C17_NameWhenLabelAbsent ==
    \A i \in 1..Len(mappings) :
        LET src == source_nodes[i]
            byName == FirstWith(target_nodes, "name", src.name)
        IN  (/\ src.label # 0
             /\ src.name # 0
             /\ FirstWith(target_nodes, "label", src.label) = None
             /\ UniqueLabels(target_nodes)
             /\ Cardinality({k \in 1..Len(target_nodes) :
                    target_nodes[k].name = src.name}) = 1
             /\ byName.id \notin UsedBefore(i))
            => LinkedAsCandidate(i, byName)

\* C18: when two target nodes carry one label, the label resolves to the
\* first of them: a source node with that label, reached while neither is
\* consumed, has the first occurrence for structural candidate.
C18_FirstOccurrenceKept ==
    \A i \in 1..Len(mappings) :
        LET l == source_nodes[i].label
            carriers == {k \in 1..Len(target_nodes) : target_nodes[k].label = l}
        IN  (/\ l # 0
             /\ Cardinality(carriers) >= 2
             /\ \A k \in carriers : target_nodes[k].id \notin UsedBefore(i))
            => LinkedAsCandidate(i, FirstWith(target_nodes, "label", l))

\* the similarity of a target node to a source node after the same-file
\* bonus: x1.2, capped at 1.0, when the files correspond
SimilarityWithBonus(src, tgt) ==
    LET s == _calculate_similarity(src.content, tgt.content)
    IN  IF StripLang(src.file_path) = StripLang(tgt.file_path)
        THEN (IF (s * 12) \div 10 > 1000000 THEN 1000000 ELSE (s * 12) \div 10)
        ELSE s

\* C19: a source node without structural candidate is linked, as Fuzzy, to
\* a not-yet-consumed target node of its kind that has the highest
\* similarity after the bonus, if that similarity is at least 0.8 and at
\* most 0.95; otherwise it is Missing without target, and no target is
\* consumed.
C19_FallbackRule ==
    /\ used_targets = UsedBefore(Len(mappings) + 1)
    /\ \A i \in 1..Len(mappings) :
          LET src == source_nodes[i]
              m == mappings[i]
              cands == {k \in 1..Len(target_nodes) :
                           /\ target_nodes[k].id \notin UsedBefore(i)
                           /\ target_nodes[k].type = src.type}
              scores == {SimilarityWithBonus(src, target_nodes[k]) : k \in cands}
              best == IF cands = {} THEN 0
                      ELSE CHOOSE x \in scores : \A y \in scores : y <= x
          IN  StructuralMatch(src, _build_node_index(target_nodes),
                              UsedBefore(i)) = None
              => IF cands # {} /\ best >= 800000 /\ best <= 950000
                 THEN /\ m.mapping_type = "fuzzy"
                      /\ m.similarity = best
                      /\ \E k \in cands :
                            /\ m.target_node = target_nodes[k]
                            /\ SimilarityWithBonus(src, target_nodes[k]) = best
                 ELSE /\ m.mapping_type = "missing"
                      /\ m.target_node = None
                      /\ m.similarity = 0

\* the second target node, lifted to 0.9 by the bonus, preferred to the
\* first, of the same kind and lower similarity
C19_Witness ==
    /\ Len(mappings) >= 1
    /\ Len(target_nodes) = 2
    /\ source_nodes[1].label = 0
    /\ target_nodes[1].type = source_nodes[1].type
    /\ SimilarityWithBonus(source_nodes[1], target_nodes[1]) > 0
    /\ mappings[1].mapping_type = "fuzzy"
    /\ mappings[1].similarity = 900000
    /\ mappings[1].target_node = target_nodes[2]
    /\ _calculate_similarity(source_nodes[1].content,
                             target_nodes[2].content) = 750000


(***************************************************************************)
(* HierarchyBuilder                                                        *)
(***************************************************************************)
\* the keys of _file_groups, in order of first appearance
RECURSIVE FileKeys(_, _, _)
FileKeys(ms, k, acc) ==
    IF k > Len(ms) THEN acc
    ELSE LET f == ms[k].source_node.file_path
         IN  FileKeys(ms, k + 1,
                      IF \E j \in 1..Len(acc) : acc[j] = f THEN acc
                      ELSE Append(acc, f))

\* every file given all the nodes
_group_by_file_unfiltered(ms) ==
    LET keys == FileKeys(ms, 1, <<>>)
        sources == [k \in 1..Len(ms) |-> ms[k].source_node]
    IN  [j \in 1..Len(keys) |-> [file_path |-> keys[j], nodes |-> sources]]

\* HierarchyBuilder._group_by_file
_group_by_file(ms) ==
    LET keys == FileKeys(ms, 1, <<>>)
        sources == [k \in 1..Len(ms) |-> ms[k].source_node]
    IN  [j \in 1..Len(keys) |->
            [file_path |-> keys[j],
             nodes |-> SelectSeq(sources, LAMBDA n : n.file_path = keys[j])]]

\* HierarchyBuilder._find_mapping: the first mapping of that source node
_find_mapping(node, ms) ==
    LET S == {k \in 1..Len(ms) : ms[k].source_node = node}
    IN  IF S = {} THEN 0 ELSE CHOOSE k \in S : \A j \in S : k <= j

\* HierarchyBuilder._create_translation_node (status is the mapping type)
_create_translation_node(node, ms) ==
    LET k == _find_mapping(node, ms)
    IN  [id |-> node.id,
         type |-> node.type,
         level |-> node.level,
         source |-> node.content,
         status |-> IF k = 0 THEN "missing" ELSE ms[k].mapping_type,
         line_number |-> node.line_number,
         parent_id |-> 0,
         children_ids |-> <<>>]

\* the loop that leaves a section of the same level on the stack
RECURSIVE PopSections_strict(_, _)
PopSections_strict(stack, node_level) ==
    IF stack # <<>> /\ stack[Len(stack)][2] > node_level
    THEN PopSections_strict(SubSeq(stack, 1, Len(stack) - 1), node_level)
    ELSE stack

\* while section_stack and section_stack[-1][1] >= node_level: pop
\* (node_level is 0 for a section whose level is None; level 0 stands for
\* None in the nodes of the model)
RECURSIVE PopSections(_, _)
PopSections(stack, node_level) ==
    IF stack # <<>> /\ stack[Len(stack)][2] >= node_level
    THEN PopSections(SubSeq(stack, 1, Len(stack) - 1), node_level)
    ELSE stack

\* the section put on the stack before its parent is read
RelationshipStep_push_first(nodes, i, w) ==
    IF nodes[i].type = "section"
    THEN LET st == Append(PopSections(w.stack, nodes[i].level),
                          <<i, nodes[i].level>>)
         IN  [stack |-> st,
              parent |-> Append(w.parent, st[Len(st)][1])]
    ELSE [stack |-> w.stack,
          parent |-> Append(w.parent,
                            IF w.stack # <<>>
                            THEN w.stack[Len(w.stack)][1] ELSE 0)]

\* a node that is no section attached to the bottom of the stack
RelationshipStep_to_outermost(nodes, i, w) ==
    IF nodes[i].type = "section"
    THEN LET st == PopSections(w.stack, nodes[i].level)
         IN  [stack |-> Append(st, <<i, nodes[i].level>>),
              parent |-> Append(w.parent,
                                IF st # <<>> THEN st[Len(st)][1] ELSE 0)]
    ELSE [stack |-> w.stack,
          parent |-> Append(w.parent,
                            IF w.stack # <<>> THEN w.stack[1][1] ELSE 0)]

\* one iteration of the loop of _build_relationships over nodes[i];
\* w.stack is section_stack, w.parent[k] the index of the parent of nodes[k]
RelationshipStep(nodes, i, w) ==
    IF nodes[i].type = "section"
    THEN LET st == PopSections(w.stack, nodes[i].level)
         IN  [stack |-> Append(st, <<i, nodes[i].level>>),
              parent |-> Append(w.parent,
                                IF st # <<>> THEN st[Len(st)][1] ELSE 0)]
    ELSE [stack |-> w.stack,
          parent |-> Append(w.parent,
                            IF w.stack # <<>>
                            THEN w.stack[Len(w.stack)][1] ELSE 0)]

RECURSIVE RelationshipWalk(_, _, _)
RelationshipWalk(nodes, i, w) ==
    IF i > Len(nodes) THEN w
    ELSE RelationshipWalk(nodes, i + 1, RelationshipStep(nodes, i, w))

\* HierarchyBuilder._build_relationships
_build_relationships(nodes, tnodes) ==
    LET parent == RelationshipWalk(nodes, 1,
                                   [stack |-> <<>>, parent |-> <<>>]).parent
        ids == [k \in 1..Len(nodes) |-> nodes[k].id]
    IN  [k \in 1..Len(nodes) |->
            [tnodes[k] EXCEPT
                !.parent_id = IF parent[k] = 0 THEN 0 ELSE ids[parent[k]],
                !.children_ids =
                    LET kids == {c \in 1..Len(nodes) : parent[c] = k}
                    IN  SelectSeq(ids, LAMBDA x :
                            \E c \in kids : ids[c] = x)]]

\* HierarchyBuilder._build_file_hierarchy
_build_file_hierarchy(file_path, nodes, ms) ==
    LET translation_nodes ==
            _build_relationships(nodes,
                [k \in 1..Len(nodes) |->
                    _create_translation_node(nodes[k], ms)])
        ids == [k \in 1..Len(translation_nodes) |-> translation_nodes[k].id]
    IN  [file_path |-> file_path,
         nodes |-> translation_nodes,
         root_node_ids |->
             SelectSeq(ids, LAMBDA x :
                 \E k \in 1..Len(translation_nodes) :
                     /\ translation_nodes[k].id = x
                     /\ translation_nodes[k].parent_id = 0),
         total_nodes |-> Len(translation_nodes)]

\* HierarchyBuilder.build_hierarchy
build_hierarchy(ms) ==
    LET fg == _group_by_file(ms)
    IN  [j \in 1..Len(fg) |->
            _build_file_hierarchy(fg[j].file_path, fg[j].nodes, ms)]

\* the characters of a neighbour's text a context keeps
ContextCap == 200

\* text[:200]
Truncated(text) == SubSeq(text, 1, Min(Len(text), ContextCap))

Separator == <<" ", "[", ".", ".", ".", "]", " ">>

\* " [...] ".join(parts)
RECURSIVE Join(_)
Join(parts) ==
    IF parts = <<>> THEN <<>>
    ELSE IF Len(parts) = 1 THEN parts[1]
         ELSE parts[1] \o Separator \o Join(Tail(parts))

\* the loop of _get_preceding_context, from place i down to the first
RECURSIVE PrecedingParts(_, _, _, _)
PrecedingParts(nodes, i, window, context_parts) ==
    IF i < 1 \/ Len(context_parts) >= window THEN context_parts
    ELSE PrecedingParts(nodes, i - 1, window,
             IF nodes[i].type # "section" /\ nodes[i].type # "code_block"
             THEN <<Truncated(nodes[i].content)>> \o context_parts
             ELSE context_parts)

\* HierarchyBuilder._get_preceding_context
_get_preceding_context(nodes, current_index, window) ==
    Join(PrecedingParts(nodes, current_index - 1, window, <<>>))

\* the loop of _get_following_context, from place i up to the last
RECURSIVE FollowingParts(_, _, _, _)
FollowingParts(nodes, i, window, context_parts) ==
    IF i > Len(nodes) \/ Len(context_parts) >= window THEN context_parts
    ELSE FollowingParts(nodes, i + 1, window,
             IF nodes[i].type # "section" /\ nodes[i].type # "code_block"
             THEN Append(context_parts, Truncated(nodes[i].content))
             ELSE context_parts)

\* HierarchyBuilder._get_following_context
_get_following_context(nodes, current_index, window) ==
    Join(FollowingParts(nodes, current_index + 1, window, <<>>))

\* HierarchyBuilder._add_context_windows: the NodeContext of each node of
\* a file (a text left None is the empty text)
_add_context_windows(nodes, window) ==
    [i \in 1..Len(nodes) |->
        [preceding_text |-> _get_preceding_context(nodes, i, window),
         following_text |-> _get_following_context(nodes, i, window)]]

\* the NodeContext of the nodes of build_hierarchy(ms), file by file
build_contexts(ms, window) ==
    LET fg == _group_by_file(ms)
    IN  [j \in 1..Len(fg) |-> _add_context_windows(fg[j].nodes, window)]

\* DocumentHierarchy.total_nodes, as build_hierarchy accumulates it
RECURSIVE total_nodes(_)
total_nodes(files) ==
    IF files = <<>> THEN 0
    ELSE Head(files).total_nodes + total_nodes(Tail(files))

(***************************************************************************)
(* TokenEstimator                                                          *)
(***************************************************************************)
\* LANGUAGE_MULTIPLIERS, in hundredths
LanguageMultiplier(language) ==
    CASE language = "ja" -> 50
      [] language = "de" -> 22
      [] OTHER -> 25

\* CONTENT_ADJUSTMENTS, in tenths
ContentAdjustment(content_type) ==
    CASE content_type = "code" -> 12
      [] content_type = "equation" -> 15
      [] content_type = "table" -> 13
      [] content_type = "list" -> 11
      [] OTHER -> 10

\* TokenEstimator.estimate: int(len * language * adjustment * (1 + 0.1))
estimate(text, content_type, language) ==
    IF text = <<>> THEN 0
    ELSE (Len(text) * LanguageMultiplier(language)
          * ContentAdjustment(content_type) * 11) \div 10000

(***************************************************************************)
(* AdaptiveBatchOptimizer                                                  *)
(***************************************************************************)
\* AdaptiveBatchOptimizer._get_content_type, on the NodeType values
_get_content_type(node_type) ==
    CASE node_type = "code_block" -> "code"
      [] node_type = "math_block" -> "equation"
      [] node_type = "table" -> "table"
      [] node_type \in {"list", "list_item"} -> "list"
      [] OTHER -> "text"

\* AdaptiveBatchOptimizer._is_section_node, on the NodeType values
_is_section_node(node) == node.type = "section"

\* per-node packaging overhead
NodeOverhead == 50

\* AdaptiveBatchOptimizer._estimate_node_tokens
_estimate_node_tokens(node, cfg) ==
    estimate(node.source, _get_content_type(node.type), cfg.source_lang)
    + NodeOverhead

\* AdaptiveBatchOptimizer._estimate_group_tokens
RECURSIVE _estimate_group_tokens(_, _)
_estimate_group_tokens(nodes, cfg) ==
    IF nodes = <<>> THEN 0
    ELSE _estimate_node_tokens(Head(nodes), cfg)
         + _estimate_group_tokens(Tail(nodes), cfg)

\* AdaptiveBatchOptimizer._get_translatable_nodes
_get_translatable_nodes(nodes) ==
    SelectSeq(nodes, LAMBDA n : n.status \in {"missing", "outdated"})

\* Python's None for an optional TranslationNode
NoSection == [id |-> 0]

\* all_nodes.get(id)
GetNode(all_nodes, id) ==
    IF \E k \in 1..Len(all_nodes) : all_nodes[k].id = id
    THEN all_nodes[CHOOSE k \in 1..Len(all_nodes) : all_nodes[k].id = id]
    ELSE NoSection

\* the while loop of _find_parent_section
RECURSIVE ParentWalk(_, _)
ParentWalk(current, all_nodes) ==
    IF current.parent_id = 0 THEN NoSection
    ELSE LET parent == GetNode(all_nodes, current.parent_id)
         IN  IF parent = NoSection THEN NoSection
             ELSE IF _is_section_node(parent) THEN parent
                  ELSE ParentWalk(parent, all_nodes)

\* the while loop of _find_parent_section, started at current, has taken
\* more iterations than there are nodes without leaving: it is on a cycle
\* of parent_id links through nodes that are no sections and never ends
RECURSIVE ParentWalkRepeats(_, _, _)
ParentWalkRepeats(current, all_nodes, taken) ==
    IF current.parent_id = 0 THEN FALSE
    ELSE LET parent == GetNode(all_nodes, current.parent_id)
         IN  IF parent = NoSection THEN FALSE
             ELSE IF _is_section_node(parent) THEN FALSE
                  ELSE IF taken >= Len(all_nodes) THEN TRUE
                       ELSE ParentWalkRepeats(parent, all_nodes, taken + 1)

\* the place of the first node for which _create_semantic_groups enters a
\* loop of _find_parent_section that never ends, 0 if there is none (a
\* node that is no section is looked up unless its parent is the current
\* section, and then the loop would end at once)
FirstEndlessLookup(nodes, all_nodes) ==
    LET S == {k \in 1..Len(nodes) :
                 /\ ~_is_section_node(nodes[k])
                 /\ ParentWalkRepeats(nodes[k], all_nodes, 0)}
    IN  IF S = {} THEN 0 ELSE CHOOSE k \in S : \A j \in S : k <= j

\* AdaptiveBatchOptimizer._find_parent_section
_find_parent_section(node, all_nodes) ==
    IF _is_section_node(node) THEN node ELSE ParentWalk(node, all_nodes)

\* a node that is no section always added to the current group
SemanticStep_without_lookup(node, all_nodes, g) ==
    IF _is_section_node(node)
    THEN [groups |-> IF g.current_group # <<>>
                     THEN Append(g.groups, g.current_group) ELSE g.groups,
          current_group |-> <<node>>,
          current_section |-> node]
    ELSE [g EXCEPT !.current_group = Append(@, node)]

\* one iteration of the loop of _create_semantic_groups
SemanticStep(node, all_nodes, g) ==
    IF _is_section_node(node)
    THEN [groups |-> IF g.current_group # <<>>
                     THEN Append(g.groups, g.current_group) ELSE g.groups,
          current_group |-> <<node>>,
          current_section |-> node]
    ELSE IF g.current_section # NoSection
            /\ node.parent_id = g.current_section.id
         THEN [g EXCEPT !.current_group = Append(@, node)]
         ELSE LET parent_section == _find_parent_section(node, all_nodes)
              IN  IF parent_section = g.current_section
                  THEN [g EXCEPT !.current_group = Append(@, node)]
                  ELSE [groups |-> IF g.current_group # <<>>
                                   THEN Append(g.groups, g.current_group)
                                   ELSE g.groups,
                        current_group |-> <<node>>,
                        current_section |-> parent_section]

RECURSIVE SemanticWalk(_, _, _, _)
SemanticWalk(nodes, all_nodes, k, g) ==
    IF k > Len(nodes) THEN g
    ELSE SemanticWalk(nodes, all_nodes, k + 1,
                      SemanticStep(nodes[k], all_nodes, g))

\* AdaptiveBatchOptimizer._create_semantic_groups
_create_semantic_groups(nodes, all_nodes) ==
    LET g == SemanticWalk(nodes, all_nodes, 1,
                 [groups |-> <<>>, current_group |-> <<>>,
                  current_section |-> NoSection])
    IN  IF g.current_group # <<>> THEN Append(g.groups, g.current_group)
        ELSE g.groups

\* AdaptiveBatchOptimizer._flatten_groups
RECURSIVE _flatten_groups(_)
_flatten_groups(gs) ==
    IF gs = <<>> THEN <<>> ELSE Head(gs) \o _flatten_groups(Tail(gs))

\* the buffer kept when it has reached the target size
MergeStep_without_target_flush(group, cfg, m) ==
    LET group_tokens == _estimate_group_tokens(group, cfg)
    IN  IF group_tokens >= cfg.min_batch_size
        THEN [optimized |->
                 (IF m.pending_merge # <<>>
                  THEN Append(m.optimized, _flatten_groups(m.pending_merge))
                  ELSE m.optimized) \o <<group>>,
              pending_merge |-> <<>>,
              pending_tokens |-> IF m.pending_merge # <<>> THEN 0
                                 ELSE m.pending_tokens]
        ELSE IF m.pending_tokens + group_tokens <= cfg.max_batch_size
             THEN [optimized |-> m.optimized,
                   pending_merge |-> Append(m.pending_merge, group),
                   pending_tokens |-> m.pending_tokens + group_tokens]
             ELSE [optimized |->
                      IF m.pending_merge # <<>>
                      THEN Append(m.optimized,
                                  _flatten_groups(m.pending_merge))
                      ELSE m.optimized,
                   pending_merge |-> <<group>>,
                   pending_tokens |-> group_tokens]

\* one iteration of the loop of _merge_small_groups
MergeStep(group, cfg, m) ==
    LET group_tokens == _estimate_group_tokens(group, cfg)
    IN  IF group_tokens >= cfg.min_batch_size
        THEN [optimized |->
                 (IF m.pending_merge # <<>>
                  THEN Append(m.optimized, _flatten_groups(m.pending_merge))
                  ELSE m.optimized) \o <<group>>,
              pending_merge |-> <<>>,
              pending_tokens |-> IF m.pending_merge # <<>> THEN 0
                                 ELSE m.pending_tokens]
        ELSE IF m.pending_tokens + group_tokens <= cfg.max_batch_size
             THEN IF m.pending_tokens + group_tokens >= cfg.target_batch_size
                  THEN [optimized |->
                           Append(m.optimized,
                               _flatten_groups(Append(m.pending_merge, group))),
                        pending_merge |-> <<>>,
                        pending_tokens |-> 0]
                  ELSE [optimized |-> m.optimized,
                        pending_merge |-> Append(m.pending_merge, group),
                        pending_tokens |-> m.pending_tokens + group_tokens]
             ELSE [optimized |->
                      IF m.pending_merge # <<>>
                      THEN Append(m.optimized,
                                  _flatten_groups(m.pending_merge))
                      ELSE m.optimized,
                   pending_merge |-> <<group>>,
                   pending_tokens |-> group_tokens]

RECURSIVE MergeWalk(_, _, _, _)
MergeWalk(gs, cfg, k, m) ==
    IF k > Len(gs) THEN m
    ELSE MergeWalk(gs, cfg, k + 1, MergeStep(gs[k], cfg, m))

\* the groups still pending when the loop ends left out
_merge_small_groups_losing_pending(gs, cfg) ==
    MergeWalk(gs, cfg, 1,
              [optimized |-> <<>>, pending_merge |-> <<>>,
               pending_tokens |-> 0]).optimized

\* AdaptiveBatchOptimizer._merge_small_groups
_merge_small_groups(gs, cfg) ==
    LET m == MergeWalk(gs, cfg, 1,
                 [optimized |-> <<>>, pending_merge |-> <<>>,
                  pending_tokens |-> 0])
    IN  IF m.pending_merge # <<>>
        THEN Append(m.optimized, _flatten_groups(m.pending_merge))
        ELSE m.optimized

\* the limit tested before the node is counted
SplitStep_late_limit(node, cfg, sp) ==
    LET node_tokens == _estimate_node_tokens(node, cfg)
    IN  IF sp.current_tokens > cfg.max_batch_size
           /\ sp.current_batch_nodes # <<>>
        THEN [parts |-> Append(sp.parts, sp.current_batch_nodes),
              current_batch_nodes |-> <<node>>,
              current_tokens |-> node_tokens]
        ELSE [parts |-> sp.parts,
              current_batch_nodes |-> Append(sp.current_batch_nodes, node),
              current_tokens |-> sp.current_tokens + node_tokens]

\* a node that cannot fit any batch left out
SplitStep_dropping(node, cfg, sp) ==
    LET node_tokens == _estimate_node_tokens(node, cfg)
    IN  IF node_tokens > cfg.max_batch_size THEN sp
        ELSE IF sp.current_tokens + node_tokens > cfg.max_batch_size
                /\ sp.current_batch_nodes # <<>>
             THEN [parts |-> Append(sp.parts, sp.current_batch_nodes),
                   current_batch_nodes |-> <<node>>,
                   current_tokens |-> node_tokens]
             ELSE [parts |-> sp.parts,
                   current_batch_nodes |-> Append(sp.current_batch_nodes, node),
                   current_tokens |-> sp.current_tokens + node_tokens]

\* one iteration of the splitting loop of _create_group_batches
SplitStep(node, cfg, sp) ==
    LET node_tokens == _estimate_node_tokens(node, cfg)
    IN  IF sp.current_tokens + node_tokens > cfg.max_batch_size
           /\ sp.current_batch_nodes # <<>>
        THEN [parts |-> Append(sp.parts, sp.current_batch_nodes),
              current_batch_nodes |-> <<node>>,
              current_tokens |-> node_tokens]
        ELSE [parts |-> sp.parts,
              current_batch_nodes |-> Append(sp.current_batch_nodes, node),
              current_tokens |-> sp.current_tokens + node_tokens]

RECURSIVE SplitWalk(_, _, _, _)
SplitWalk(nodes, cfg, k, sp) ==
    IF k > Len(nodes) THEN sp
    ELSE SplitWalk(nodes, cfg, k + 1, SplitStep(nodes[k], cfg, sp))

\* the node lists _create_group_batches makes batches of
GroupParts(nodes, cfg) ==
    IF _estimate_group_tokens(nodes, cfg) <= cfg.max_batch_size
    THEN <<nodes>>
    ELSE LET sp == SplitWalk(nodes, cfg, 1,
                       [parts |-> <<>>, current_batch_nodes |-> <<>>,
                        current_tokens |-> 0])
         IN  IF sp.current_batch_nodes # <<>>
             THEN Append(sp.parts, sp.current_batch_nodes)
             ELSE sp.parts

\* AdaptiveBatchOptimizer._calculate_priority
RECURSIVE _calculate_priority(_)
_calculate_priority(nodes) ==
    IF nodes = <<>> THEN 0
    ELSE (IF _is_section_node(Head(nodes)) THEN 10 ELSE 0)
         + (IF Head(nodes).line_number < 100 THEN 5 ELSE 0)
         + (IF Len(Head(nodes).children_ids) > 3 THEN 3 ELSE 0)
         + _calculate_priority(Tail(nodes))

\* AdaptiveBatchOptimizer._create_batch, the counter being already advanced
_create_batch(file_path, nodes, counter, cfg) ==
    [batch_id |-> counter,
     estimated_tokens |-> _estimate_group_tokens(nodes, cfg),
     file_group |-> file_path,
     node_ids |-> [k \in 1..Len(nodes) |-> nodes[k].id],
     priority |-> _calculate_priority(nodes),
     dependencies |-> <<>>]

\* the batches _create_adaptive_batches makes of the optimized groups
RECURSIVE BatchesOfParts(_, _, _, _)
BatchesOfParts(file_path, parts, counter, cfg) ==
    IF parts = <<>> THEN <<>>
    ELSE <<_create_batch(file_path, Head(parts), counter + 1, cfg)>>
         \o BatchesOfParts(file_path, Tail(parts), counter + 1, cfg)

RECURSIVE AllParts(_, _)
AllParts(gs, cfg) ==
    IF gs = <<>> THEN <<>>
    ELSE GroupParts(Head(gs), cfg) \o AllParts(Tail(gs), cfg)

\* batches.sort(key=lambda b: (-b.priority, b.batch_id))
SortsBefore(a, b) ==
    \/ a.priority > b.priority
    \/ a.priority = b.priority /\ a.batch_id < b.batch_id

SortBatches(bs) ==
    LET rank(k) == 1 + Cardinality({j \in 1..Len(bs) :
                           \/ SortsBefore(bs[j], bs[k])
                           \/ (~SortsBefore(bs[k], bs[j]) /\ j < k)})
    IN  [r \in 1..Len(bs) |-> bs[CHOOSE k \in 1..Len(bs) : rank(k) = r]]

\* the batch after bs[k] in the list of its file group, 0 if none
PrevInFile_following(bs, k) ==
    LET S == {j \in (k + 1)..Len(bs) : bs[j].file_group = bs[k].file_group}
    IN  IF S = {} THEN 0 ELSE CHOOSE j \in S : \A i \in S : j <= i

\* the batch before bs[k] in the list of its file group, 0 if none
PrevInFile(bs, k) ==
    LET S == {j \in 1..(k - 1) : bs[j].file_group = bs[k].file_group}
    IN  IF S = {} THEN 0 ELSE CHOOSE j \in S : \A i \in S : i <= j

\* AdaptiveBatchOptimizer._optimize_batch_order
_optimize_batch_order(bs) ==
    LET sorted == SortBatches(bs)
    IN  [k \in 1..Len(sorted) |->
            LET p == PrevInFile(sorted, k)
            IN  IF p = 0 THEN sorted[k]
                ELSE IF \E d \in 1..Len(sorted[k].dependencies) :
                           sorted[k].dependencies[d] = sorted[p].batch_id
                     THEN sorted[k]
                     ELSE [sorted[k] EXCEPT
                              !.dependencies = Append(@, sorted[p].batch_id)]]

\* a division by zero inside _calculate_metrics
ZeroDivisionError == [raised |-> "ZeroDivisionError"]

RECURSIVE SumTokens(_)
SumTokens(bs) ==
    IF bs = <<>> THEN 0 ELSE Head(bs).estimated_tokens + SumTokens(Tail(bs))

\* min(100, (tokens / target_batch_size) * 100), summed, in thousandths
RECURSIVE SumUtilization(_, _)
SumUtilization(bs, cfg) ==
    IF bs = <<>> THEN 0
    ELSE Min(100000, (Head(bs).estimated_tokens * 100000)
                         \div cfg.target_batch_size)
         + SumUtilization(Tail(bs), cfg)

\* the statistics without the early return for an empty batch list
_calculate_metrics_unguarded(batches, files, cfg) ==
    IF Len(batches) = 0 \/ cfg.target_batch_size = 0
    THEN ZeroDivisionError
    ELSE LET tokens == {batches[k].estimated_tokens : k \in 1..Len(batches)}
             original_overhead == total_nodes(files) * 100
             optimized_overhead == Len(batches) * 100
         IN  [total_nodes |-> total_nodes(files),
              total_batches |-> Len(batches),
              avg_batch_size |->
                  (SumTokens(batches) * 1000) \div Len(batches),
              avg_utilization |->
                  SumUtilization(batches, cfg) \div Len(batches),
              min_batch_tokens |->
                  CHOOSE t \in tokens : \A u \in tokens : t <= u,
              max_batch_tokens |->
                  CHOOSE t \in tokens : \A u \in tokens : t >= u,
              api_calls_saved |-> total_nodes(files) - Len(batches),
              token_reduction_percent |->
                  IF original_overhead > 0
                  THEN ((original_overhead - optimized_overhead) * 100000)
                           \div original_overhead
                  ELSE 0]

\* AdaptiveBatchOptimizer._calculate_metrics; the floats in thousandths
_calculate_metrics(batches, files, cfg) ==
    IF batches = <<>> THEN OptimizationMetrics
    ELSE IF cfg.target_batch_size = 0 THEN ZeroDivisionError
    ELSE LET tokens == {batches[k].estimated_tokens : k \in 1..Len(batches)}
             original_overhead == total_nodes(files) * 100
             optimized_overhead == Len(batches) * 100
         IN  [total_nodes |-> total_nodes(files),
              total_batches |-> Len(batches),
              avg_batch_size |->
                  (SumTokens(batches) * 1000) \div Len(batches),
              avg_utilization |->
                  SumUtilization(batches, cfg) \div Len(batches),
              min_batch_tokens |->
                  CHOOSE t \in tokens : \A u \in tokens : t <= u,
              max_batch_tokens |->
                  CHOOSE t \in tokens : \A u \in tokens : t >= u,
              api_calls_saved |-> total_nodes(files) - Len(batches),
              token_reduction_percent |->
                  IF original_overhead > 0
                  THEN ((original_overhead - optimized_overhead) * 100000)
                           \div original_overhead
                  ELSE 0]

\* optimize_hierarchy calls on one optimizer
MaxRuns == 2


(***************************************************************************)
(* The pipeline: build_hierarchy, the optimizer's construction and the     *)
(* stages of one optimize_hierarchy run                                    *)
(***************************************************************************)
\* HierarchyBuilder.build_hierarchy on the matcher's mappings
BuildHierarchy ==
    /\ pc = "matched"
    /\ hierarchy' = build_hierarchy(mappings)
    /\ pc' = "built"
    /\ UNCHANGED matcher_vars
    /\ UNCHANGED optimizer_vars
    /\ _file_groups' = _group_by_file(mappings)
    /\ contexts' = build_contexts(mappings, context_window)
    /\ UNCHANGED <<current_id, runs, context_window>>

\* AdaptiveBatchOptimizer.__init__: the sizes are stored as given
__init__(target_batch_size, min_batch_size, max_batch_size, source_lang, enable_context, window) ==
    [target_batch_size |-> target_batch_size,
     min_batch_size |-> min_batch_size,
     max_batch_size |-> max_batch_size,
     source_lang |-> source_lang,
     enable_context |-> enable_context,
     context_window |-> window]

\* the optimizer TranslationExporter._export_json builds from the options
\* batch_size, include_context and context_window
ExporterOptimizer(batch_size, include_context) ==
    __init__(batch_size, Max(500, batch_size \div 4), batch_size, "en",
             include_context, context_window)

\* values of the batch_size option
BatchSizes == {60, 120, 2000}

\* sizes a caller constructs the optimizer with
MinSizes == {51, 101}
TargetSizes == {51, 101}
MaxSizes == {51, 103}

\* _export_json constructing its optimizer
ExporterConstruct ==
    /\ pc = "built"
    /\ stage = "none"
    /\ \E batch_size \in BatchSizes :
          config' = ExporterOptimizer(batch_size, FALSE)
    /\ _batch_counter' = 0
    /\ _metrics' = OptimizationMetrics
    /\ stage' = "Idle"
    /\ UNCHANGED <<matcher_vars, pc, hierarchy, file_idx, groups,
                   all_batches, returned>>
    /\ UNCHANGED shared_vars

\* a caller constructing the optimizer
Construct ==
    /\ pc = "built"
    /\ stage = "none"
    /\ \E t \in TargetSizes, mn \in MinSizes, mx \in MaxSizes :
          config' = __init__(t, mn, mx, "en", TRUE, 3)
    /\ _batch_counter' = 0
    /\ _metrics' = OptimizationMetrics
    /\ stage' = "Idle"
    /\ UNCHANGED <<matcher_vars, pc, hierarchy, file_idx, groups,
                   all_batches, returned>>
    /\ UNCHANGED shared_vars

\* the loop of ContextManager._get_preceding_nodes, from place i down
RECURSIVE _get_preceding_nodes(_, _, _, _)
_get_preceding_nodes(_nodes_list, i, window_size, preceding) ==
    IF i < 1 \/ Len(preceding) >= window_size THEN preceding
    ELSE _get_preceding_nodes(_nodes_list, i - 1, window_size,
             IF ~_is_section_node(_nodes_list[i])
             THEN <<_nodes_list[i]>> \o preceding
             ELSE preceding)

\* the loop of ContextManager._get_following_nodes, from place i up
RECURSIVE _get_following_nodes(_, _, _, _)
_get_following_nodes(_nodes_list, i, window_size, following) ==
    IF i > Len(_nodes_list) \/ Len(following) >= window_size THEN following
    ELSE _get_following_nodes(_nodes_list, i + 1, window_size,
             IF ~_is_section_node(_nodes_list[i])
             THEN Append(following, _nodes_list[i])
             ELSE following)

\* ContextWindow.preceding_text and ContextWindow.following_text
WindowText(window_nodes) ==
    Join([k \in 1..Len(window_nodes) |-> Truncated(window_nodes[k].source)])

\* ContextManager.build_context_windows on the list it is given
build_context_windows(nodes, window_size) ==
    [i \in 1..Len(nodes) |->
        [preceding_text |->
             WindowText(_get_preceding_nodes(nodes, i - 1, window_size, <<>>)),
         following_text |->
             WindowText(_get_following_nodes(nodes, i + 1, window_size, <<>>))]]

\* AdaptiveBatchOptimizer._enhance_with_context on the translatable nodes
\* of a file: the contexts of the file after enhance_node_context has
\* rewritten those of the translatable nodes that have one
_enhance_with_context(all_nodes, file_contexts, window_size) ==
    LET nodes == _get_translatable_nodes(all_nodes)
        windows == build_context_windows(nodes, window_size)
    IN  [k \in 1..Len(all_nodes) |->
            IF file_contexts[k] # NoContext
               /\ \E i \in 1..Len(nodes) : nodes[i].id = all_nodes[k].id
            THEN windows[CHOOSE i \in 1..Len(nodes) :
                             nodes[i].id = all_nodes[k].id]
            ELSE file_contexts[k]]

\* the stage the run is in once the loop over the files reaches file k
StageAtFile(k) == IF k > Len(hierarchy) THEN "Finalizing" ELSE "Grouping"

\* optimize_hierarchy is entered
OptimizeStart ==
    /\ stage = "Idle"
    /\ all_batches' = <<>>
    /\ file_idx' = 1
    /\ stage' = StageAtFile(1)
    /\ UNCHANGED <<matcher_vars, pc, hierarchy, config, _batch_counter,
                   groups, _metrics, returned>>
    /\ UNCHANGED shared_vars

\* optimize_hierarchy is entered again on the same optimizer, with the same
\* hierarchy
OptimizeAgain ==
    /\ stage = "Ordered"
    /\ Len(returned) < MaxRuns
    /\ all_batches' = <<>>
    /\ file_idx' = 1
    /\ stage' = StageAtFile(1)
    /\ UNCHANGED <<matcher_vars, pc, hierarchy, config, _batch_counter,
                   groups, _metrics, returned>>
    /\ UNCHANGED shared_vars

\* the file's translatable nodes and their semantic groups; a file without
\* translatable nodes is skipped; with enable_context the context of the
\* translatable nodes is rewritten first; the step is taken when every
\* loop of _find_parent_section ends
GroupFile ==
    /\ stage = "Grouping"
    /\ FirstEndlessLookup(_get_translatable_nodes(hierarchy[file_idx].nodes),
                          hierarchy[file_idx].nodes) = 0
    /\ LET all_nodes == hierarchy[file_idx].nodes
           translatable_nodes == _get_translatable_nodes(all_nodes)
       IN  IF translatable_nodes = <<>>
           THEN /\ file_idx' = file_idx + 1
                /\ stage' = StageAtFile(file_idx + 1)
                /\ UNCHANGED groups
           ELSE /\ groups' = _create_semantic_groups(translatable_nodes,
                                                     all_nodes)
                /\ stage' = "Merging"
                /\ UNCHANGED file_idx
    /\ contexts' =
           IF config.enable_context
              /\ _get_translatable_nodes(hierarchy[file_idx].nodes) # <<>>
           THEN [contexts EXCEPT ![file_idx] =
                    _enhance_with_context(hierarchy[file_idx].nodes,
                                          contexts[file_idx],
                                          config.context_window)]
           ELSE contexts
    /\ UNCHANGED <<matcher_vars, pc, hierarchy, config, _batch_counter,
                   all_batches, _metrics, returned>>
    /\ UNCHANGED <<current_id, _file_groups, runs, context_window>>

\* _merge_small_groups on the file's groups
MergeGroups ==
    /\ stage = "Merging"
    /\ groups' = _merge_small_groups(groups, config)
    /\ stage' = "Splitting"
    /\ UNCHANGED <<matcher_vars, pc, hierarchy, config, _batch_counter,
                   file_idx, all_batches, _metrics, returned>>
    /\ UNCHANGED shared_vars

\* _create_group_batches on every optimized group, then the next file
CreateBatches ==
    /\ stage = "Splitting"
    /\ LET parts == AllParts(groups, config)
       IN  /\ all_batches' = all_batches
                \o BatchesOfParts(hierarchy[file_idx].file_path, parts,
                                  _batch_counter, config)
           /\ _batch_counter' = _batch_counter + Len(parts)
    /\ groups' = <<>>
    /\ file_idx' = file_idx + 1
    /\ stage' = StageAtFile(file_idx + 1)
    /\ UNCHANGED <<matcher_vars, pc, hierarchy, config, _metrics, returned>>
    /\ UNCHANGED shared_vars

\* _optimize_batch_order and _calculate_metrics; optimize_hierarchy returns
\* the batches and the metrics, or the exception leaves the call
OrderBatches ==
    /\ stage = "Finalizing"
    /\ LET ordered == _optimize_batch_order(all_batches)
           metrics == _calculate_metrics(ordered, hierarchy, config)
       IN  /\ all_batches' = ordered
           /\ IF metrics = ZeroDivisionError
              THEN /\ stage' = "Failed"
                   /\ UNCHANGED <<_metrics, returned>>
              ELSE /\ stage' = "Ordered"
                   /\ _metrics' = metrics
                   /\ returned' = Append(returned, [batches |-> ordered,
                                                    metrics |-> metrics])
    /\ UNCHANGED <<matcher_vars, pc, hierarchy, config, _batch_counter,
                   file_idx, groups>>
    /\ UNCHANGED shared_vars

\* _create_semantic_groups inside a loop of _find_parent_section that never
\* ends: one iteration, current = parent
ParentLoop ==
    /\ stage = "Grouping"
    /\ LET all_nodes == hierarchy[file_idx].nodes
           translatable_nodes == _get_translatable_nodes(all_nodes)
           k == FirstEndlessLookup(translatable_nodes, all_nodes)
       IN  /\ k # 0
           /\ current_id' =
                  GetNode(all_nodes,
                          IF current_id = 0 THEN translatable_nodes[k].id
                          ELSE current_id).parent_id
    /\ UNCHANGED <<matcher_vars, pc, hierarchy, _file_groups, runs,
                   context_window, contexts>>
    /\ UNCHANGED optimizer_vars

OptimizeNext ==
    \/ OptimizeStart
    \/ GroupFile
    \/ MergeGroups
    \/ CreateBatches
    \/ OrderBatches

(***************************************************************************)
(* The export pipeline: matcher, builder, the exporter's optimizer         *)
(***************************************************************************)
PipeSourceShapes(i) ==
    {DocumentNode(i, t, IF t = "section" THEN 1 ELSE 0, <<"a", "b">>, l, 0,
                  f, i) :
        t \in {"section", "paragraph"}, l \in {0, 1}, f \in {EnA, EnB}}

PipeTargetShapes(i) ==
    {DocumentNode(100 + i, t, IF t = "section" THEN 1 ELSE 0, c, l, 0,
                  JaB, i) :
        t \in {"section", "paragraph"}, l \in {0, 1},
        c \in {<<"a", "b">>, <<"a", "b", "a">>, <<"c">>}}

PipeInit ==
    /\ source_nodes \in NodeLists(PipeSourceShapes, MaxSrc)
    /\ target_nodes \in NodeLists(PipeTargetShapes, MaxTgt)
    /\ mappings = <<>>
    /\ used_targets = {}
    /\ coverage_stats = NoCoverage
    /\ pc = "matching"
    /\ DownstreamIdle

PipeNext ==
    \/ MatchNode
    \/ MatchReturn
    \/ BuildHierarchy
    \/ ExporterConstruct
    \/ OptimizeNext

SpecPipe == PipeInit /\ [][PipeNext]_vars

(***************************************************************************)
(* The optimizer on the hierarchy of source trees that have no target yet  *)
(***************************************************************************)
Text(n) == [k \in 1..n |-> "a"]

OptShapes(i) ==
    {DocumentNode(i, t, IF t = "section" THEN 1 ELSE 0, Text(n), 0, 0, f, i) :
        t \in {"section", "paragraph"}, n \in {0, 4, 8}, f \in {EnA, EnB}}

OptInit ==
    /\ source_nodes \in NodeLists(OptShapes, MaxNodes)
    /\ target_nodes = <<>>
    /\ mappings = [k \in 1..Len(source_nodes) |->
                      NodeMapping(source_nodes[k], None, 0, "missing")]
    /\ used_targets = {}
    /\ coverage_stats = _calculate_coverage(mappings)
    /\ pc = "built"
    /\ hierarchy = build_hierarchy(mappings)
    /\ config = NoConfig
    /\ _batch_counter = 0
    /\ stage = "none"
    /\ file_idx = 0
    /\ groups = <<>>
    /\ all_batches = <<>>
    /\ _metrics = OptimizationMetrics
    /\ returned = <<>>
    /\ current_id = 0
    /\ _file_groups = _group_by_file(mappings)
    /\ runs = <<>>
    /\ context_window = 3
    /\ contexts = build_contexts(mappings, context_window)

OptNext == Construct \/ OptimizeNext

SpecOpt == OptInit /\ [][OptNext]_vars

(***************************************************************************)
(* The builder on the mappings of source trees that have no target yet     *)
(***************************************************************************)
\* sections without a level (0) and of two levels, and paragraphs
BuildShapes(i) ==
    {DocumentNode(i, "section", lv, <<"a">>, 0, 0, f, i) :
        lv \in {0, 1, 2}, f \in {EnA, EnB}}
    \cup {DocumentNode(i, "paragraph", 0, <<"a">>, 0, 0, f, i) :
              f \in {EnA, EnB}}

BuildInit ==
    /\ source_nodes \in NodeLists(BuildShapes, MaxNodes)
    /\ target_nodes = <<>>
    /\ mappings = <<>>
    /\ used_targets = {}
    /\ coverage_stats = NoCoverage
    /\ pc = "matching"
    /\ DownstreamIdle

BuildNext == MatchNode \/ MatchReturn \/ BuildHierarchy

SpecBuild == BuildInit /\ [][BuildNext]_vars

(***************************************************************************)
(* The matcher on contents whose similarities lie on and around the        *)
(* thresholds: 0.2, 0.3, 0.95 and 1.0                                      *)
(***************************************************************************)
Repeat(c, n) == [k \in 1..n |-> c]

ThresholdSourceContents ==
    {Repeat("a", 3) \o Repeat("b", 7), Repeat("a", 19) \o <<"b">>}

ThresholdTargetContents ==
    {Repeat("a", 3) \o Repeat("c", 7), Repeat("a", 2) \o Repeat("c", 8),
     Repeat("a", 19) \o <<"c">>, Repeat("a", 19) \o <<"b">>}

ThresholdSourceShapes(i) ==
    {DocumentNode(i, "paragraph", 0, c, i, 0, EnA, i) :
        c \in ThresholdSourceContents}

ThresholdTargetShapes(i) ==
    {DocumentNode(100 + i, "paragraph", 0, c, l, 0, JaB, i) :
        c \in ThresholdTargetContents, l \in {0, i}}

ThresholdInit ==
    /\ source_nodes \in NodeLists(ThresholdSourceShapes, MaxSrc)
    /\ target_nodes \in NodeLists(ThresholdTargetShapes, MaxTgt)
    /\ mappings = <<>>
    /\ used_targets = {}
    /\ coverage_stats = NoCoverage
    /\ pc = "matching"
    /\ DownstreamIdle

SpecThreshold == ThresholdInit /\ [][MatchNext]_vars

(***************************************************************************)
(* The matcher on trees where the same-kind fallback decides: two kinds,   *)
(* files that correspond or not, contents of similarity 2/3, 0.75, 6/7     *)
(* and 1.0 to the source content                                           *)
(***************************************************************************)
FallbackTargetContents ==
    {<<"a", "b", "c">>, <<"a", "b", "c", "d">>, <<"a", "b", "c", "d", "e">>,
     <<"a", "b", "c", "d", "e", "f">>}

FallbackSourceShapes(i) ==
    {DocumentNode(i, "paragraph", 0, <<"a", "b", "c">>, l, 0, EnA, i) :
        l \in {0, 1}}

FallbackTargetShapes(i) ==
    {DocumentNode(100 + i, "paragraph", 0, c, l, 0, f, i) :
        c \in FallbackTargetContents, l \in {0, 1}, f \in {JaA, JaB}}
    \cup {DocumentNode(100 + i, "code_block", 0, <<"a", "b", "c", "d">>, l, 0,
                       f, i) : l \in {0, 1}, f \in {JaA, JaB}}

FallbackInit ==
    /\ source_nodes \in NodeLists(FallbackSourceShapes, MaxSrc)
    /\ target_nodes \in NodeLists(FallbackTargetShapes, MaxTgt)
    /\ mappings = <<>>
    /\ used_targets = {}
    /\ coverage_stats = NoCoverage
    /\ pc = "matching"
    /\ DownstreamIdle

SpecFallback == FallbackInit /\ [][MatchNext]_vars

(***************************************************************************)
(* One optimizer called again with the hierarchy it was called with        *)
(***************************************************************************)
RunsNext == Construct \/ OptimizeNext \/ OptimizeAgain

SpecRuns == OptInit /\ [][RunsNext]_vars

(***************************************************************************)
(* The optimizer on hierarchies in which some nodes are translated         *)
(***************************************************************************)
\* sections of two levels and paragraphs
GroupShapes(i) ==
    {DocumentNode(i, "section", lv, Text(4), 0, 0, f, i) :
        lv \in {1, 2}, f \in {EnA, EnB}}
    \cup {DocumentNode(i, "paragraph", 0, Text(4), 0, 0, f, i) :
              f \in {EnA, EnB}}

\* the target node a translated source node is linked to
TranslationOf(node) ==
    DocumentNode(100 + node.id, node.type, node.level, <<"c">>, 0, 0, JaA,
                 node.line_number)

\* the state after a comparison that linked the source nodes in the set
\* translated, and after build_hierarchy
GroupInit ==
    /\ source_nodes \in NodeLists(GroupShapes, MaxNodes)
    /\ \E translated \in SUBSET (1..Len(source_nodes)) :
          /\ target_nodes =
                 LET all == [k \in 1..Len(source_nodes) |->
                                TranslationOf(source_nodes[k])]
                 IN  SelectSeq(all, LAMBDA t : (t.id - 100) \in translated)
          /\ mappings = [k \in 1..Len(source_nodes) |->
                IF k \in translated
                THEN NodeMapping(source_nodes[k],
                                 TranslationOf(source_nodes[k]), 0, "exact")
                ELSE NodeMapping(source_nodes[k], None, 0, "missing")]
          /\ used_targets = {100 + source_nodes[k].id : k \in translated}
    /\ coverage_stats = _calculate_coverage(mappings)
    /\ pc = "built"
    /\ hierarchy = build_hierarchy(mappings)
    /\ config = NoConfig
    /\ _batch_counter = 0
    /\ stage = "none"
    /\ file_idx = 0
    /\ groups = <<>>
    /\ all_batches = <<>>
    /\ _metrics = OptimizationMetrics
    /\ returned = <<>>
    /\ current_id = 0
    /\ _file_groups = _group_by_file(mappings)
    /\ runs = <<>>
    /\ context_window = 3
    /\ contexts = build_contexts(mappings, context_window)

SpecGroup == GroupInit /\ [][OptNext]_vars

(***************************************************************************)
(* Properties of the pipeline and of the optimizer                         *)
(***************************************************************************)
(***************************************************************************)
(* The verbose export: the pipeline followed by the metrics report         *)
(***************************************************************************)
\* AdaptiveBatchOptimizer.get_metrics_report: the figures the report
\* formats (percentages in thousandths), or the exception of the division
\* by total_nodes
get_metrics_report(m, cfg) ==
    IF m.total_nodes = 0 THEN ZeroDivisionError
    ELSE [total_nodes |-> m.total_nodes,
          total_batches |-> m.total_batches,
          target |-> cfg.target_batch_size,
          api_calls_saved |-> m.api_calls_saved,
          reduction |-> (m.api_calls_saved * 100000) \div m.total_nodes,
          optimized |-> m.avg_utilization > 80000]

\* _export_json with the verbose option printing the report of the run
PrintReport ==
    /\ pc = "built"
    /\ stage = "Ordered"
    /\ pc' = IF get_metrics_report(_metrics, config) = ZeroDivisionError
             THEN "raised" ELSE "reported"
    /\ UNCHANGED <<matcher_vars, hierarchy>>
    /\ UNCHANGED optimizer_vars
    /\ UNCHANGED shared_vars

ExportNext == PipeNext \/ PrintReport

SpecExport == PipeInit /\ [][ExportNext]_vars

(***************************************************************************)
(* Two build_hierarchy calls interleaved on one HierarchyBuilder            *)
(***************************************************************************)
\* the callers
Runs == {"A", "B"}

\* the i-th source node of the mappings a caller passes; the callers pass
\* different nodes
RunShapes(r, i) ==
    {DocumentNode((IF r = "A" THEN 0 ELSE 10) + i, t,
                  IF t = "section" THEN 1 ELSE 0, <<"a">>, 0, 0, f, i) :
        t \in {"section", "paragraph"}, f \in {EnA, EnB}}

\* the mappings of source nodes that have no target
MissingMappings(nodes) ==
    [k \in 1..Len(nodes) |-> NodeMapping(nodes[k], None, 0, "missing")]

\* a builder just constructed and the arguments of the two calls
SharedInit ==
    /\ source_nodes = <<>>
    /\ target_nodes = <<>>
    /\ mappings = <<>>
    /\ used_targets = {}
    /\ coverage_stats = NoCoverage
    /\ pc = "matched"
    /\ hierarchy = <<>>
    /\ config = NoConfig
    /\ _batch_counter = 0
    /\ stage = "none"
    /\ file_idx = 0
    /\ groups = <<>>
    /\ all_batches = <<>>
    /\ _metrics = OptimizationMetrics
    /\ returned = <<>>
    /\ current_id = 0
    /\ _file_groups = <<>>
    /\ context_window = 3
    /\ contexts = <<>>
    /\ \E a \in NodeLists(LAMBDA i : RunShapes("A", i), MaxSrc),
          b \in NodeLists(LAMBDA i : RunShapes("B", i), MaxSrc) :
          runs = [r \in Runs |->
                     [mappings |-> MissingMappings(IF r = "A" THEN a ELSE b),
                      pc |-> "called",
                      hierarchy |-> <<>>]]

\* build_hierarchy of caller r runs self._group_by_file(mappings)
RunGroupByFile(r) ==
    /\ runs[r].pc = "called"
    /\ _file_groups' = _group_by_file(runs[r].mappings)
    /\ runs' = [runs EXCEPT ![r].pc = "grouped"]
    /\ UNCHANGED <<matcher_vars, pc, hierarchy, current_id, context_window,
                   contexts>>
    /\ UNCHANGED optimizer_vars

\* build_hierarchy of caller r runs its loop over self._file_groups.items()
\* and returns the hierarchy
RunBuildFiles(r) ==
    /\ runs[r].pc = "grouped"
    /\ runs' = [runs EXCEPT
                   ![r].pc = "returned",
                   ![r].hierarchy =
                       [j \in 1..Len(_file_groups) |->
                           _build_file_hierarchy(_file_groups[j].file_path,
                                                 _file_groups[j].nodes,
                                                 runs[r].mappings)]]
    /\ UNCHANGED <<matcher_vars, pc, hierarchy, current_id, _file_groups,
                   context_window, contexts>>
    /\ UNCHANGED optimizer_vars

SharedNext == \E r \in Runs : RunGroupByFile(r) \/ RunBuildFiles(r)

SpecShared == SharedInit /\ [][SharedNext]_vars

(***************************************************************************)
(* The optimizer on hierarchies a caller made by hand: a parent_id is any  *)
(* id, of a node of the file or not                                        *)
(***************************************************************************)
\* the most nodes a hand-made file has
MaxHandMade == 2

\* the k-th node of a file of n nodes; its parent_id is None (0), the id
\* of another node of the file, or an id of no node (n + 1)
HandMadeNodes(k, n) ==
    {[id |-> k, type |-> t, level |-> IF t = "section" THEN 1 ELSE 0,
      source |-> Text(4), status |-> "missing", line_number |-> k,
      parent_id |-> p, children_ids |-> <<>>] :
        t \in {"section", "paragraph"}, p \in (0..(n + 1)) \ {k}}

HandMadeFiles ==
    UNION {{[file_path |-> EnA, nodes |-> ns, root_node_ids |-> <<>>,
             total_nodes |-> n] :
               ns \in {f \in [1..n -> UNION {HandMadeNodes(k, n) : k \in 1..n}] :
                          \A k \in 1..n : f[k] \in HandMadeNodes(k, n)}} :
           n \in 1..MaxHandMade}

HandMadeInit ==
    /\ source_nodes = <<>>
    /\ target_nodes = <<>>
    /\ mappings = <<>>
    /\ used_targets = {}
    /\ coverage_stats = NoCoverage
    /\ pc = "built"
    /\ \E file \in HandMadeFiles : hierarchy = <<file>>
    /\ config = NoConfig
    /\ _batch_counter = 0
    /\ stage = "none"
    /\ file_idx = 0
    /\ groups = <<>>
    /\ all_batches = <<>>
    /\ _metrics = OptimizationMetrics
    /\ returned = <<>>
    /\ current_id = 0
    /\ _file_groups = <<>>
    /\ runs = <<>>
    /\ context_window = 3
    /\ contexts = <<[k \in 1..Len(hierarchy[1].nodes) |-> NoContext]>>

HandMadeNext == Construct \/ OptimizeNext \/ ParentLoop

SpecHandMade == HandMadeInit /\ [][HandMadeNext]_vars

\* the caller's thread keeps running: it constructs the optimizer, calls
\* optimize_hierarchy and every step of the call that can be taken is taken
SpecHandMadeFair == SpecHandMade /\ WF_vars(HandMadeNext)

(***************************************************************************)
(* The export with the option include_context: builder, then the          *)
(* optimizer rewriting the context of the nodes it selects                 *)
(***************************************************************************)
\* _export_json constructing its optimizer, include_context being set
ExporterConstructWithContext ==
    /\ pc = "built"
    /\ stage = "none"
    /\ \E batch_size \in BatchSizes :
          config' = ExporterOptimizer(batch_size, TRUE)
    /\ _batch_counter' = 0
    /\ _metrics' = OptimizationMetrics
    /\ stage' = "Idle"
    /\ UNCHANGED <<matcher_vars, pc, hierarchy, file_idx, groups,
                   all_batches, returned>>
    /\ UNCHANGED shared_vars

\* the content of the i-th node, different from node to node
Letters == <<<<"a">>, <<"b">>, <<"c">>, <<"d">>, <<"e">>>>

\* sections, paragraphs and code blocks of one file
ContextShapes(i) ==
    {DocumentNode(i, t, IF t = "section" THEN 1 ELSE 0, Letters[i], 0, 0,
                  EnA, i) :
        t \in {"section", "paragraph", "code_block"}}

\* values of the option context_window
ContextWindows == {1, 2}

\* the state after a comparison that linked the source nodes in the set
\* translated
ContextInit ==
    /\ source_nodes \in NodeLists(ContextShapes, MaxNodes)
    /\ \E translated \in SUBSET (1..Len(source_nodes)) :
          /\ target_nodes =
                 LET all == [k \in 1..Len(source_nodes) |->
                                TranslationOf(source_nodes[k])]
                 IN  SelectSeq(all, LAMBDA t : (t.id - 100) \in translated)
          /\ mappings = [k \in 1..Len(source_nodes) |->
                IF k \in translated
                THEN NodeMapping(source_nodes[k],
                                 TranslationOf(source_nodes[k]), 0, "exact")
                ELSE NodeMapping(source_nodes[k], None, 0, "missing")]
          /\ used_targets = {100 + source_nodes[k].id : k \in translated}
    /\ coverage_stats = _calculate_coverage(mappings)
    /\ pc = "matched"
    /\ hierarchy = <<>>
    /\ config = NoConfig
    /\ _batch_counter = 0
    /\ stage = "none"
    /\ file_idx = 0
    /\ groups = <<>>
    /\ all_batches = <<>>
    /\ _metrics = OptimizationMetrics
    /\ returned = <<>>
    /\ current_id = 0
    /\ _file_groups = <<>>
    /\ runs = <<>>
    /\ context_window \in ContextWindows
    /\ contexts = <<>>

ContextNext == BuildHierarchy \/ ExporterConstructWithContext \/ OptimizeNext

SpecContext == ContextInit /\ [][ContextNext]_vars

ValidConfig(cfg) ==
    /\ cfg.min_batch_size <= cfg.max_batch_size
    /\ cfg.min_batch_size <= cfg.target_batch_size
    /\ cfg.target_batch_size <= cfg.max_batch_size

FileIndices == 1..Len(hierarchy)
BatchIndices == 1..Len(all_batches)

\* the batches of one file, and the ids they hold
BatchesOfFile(f) ==
    {k \in BatchIndices : all_batches[k].file_group = hierarchy[f].file_path}

IdsOf(b) == {b.node_ids[k] : k \in 1..Len(b.node_ids)}

\* the number of places a node id takes in the batches of a file
Occurrences(f, id) ==
    Cardinality(UNION {{<<k, n>> : n \in {x \in 1..Len(all_batches[k].node_ids) :
                                              all_batches[k].node_ids[x] = id}} :
                       k \in BatchesOfFile(f)})

NodesWithStatus(f, statuses) ==
    {k \in 1..Len(hierarchy[f].nodes) : hierarchy[f].nodes[k].status \in statuses}

\* C5: after matcher, builder and optimizer, the batches of a file hold
\* exactly its Missing and Fuzzy nodes, each once, and no Exact node.
C5_NoNodeLoss ==
    stage = "Ordered" =>
        \A f \in FileIndices :
            \A k \in 1..Len(hierarchy[f].nodes) :
                Occurrences(f, hierarchy[f].nodes[k].id) =
                    IF hierarchy[f].nodes[k].status \in {"missing", "fuzzy"}
                    THEN 1 ELSE 0

\* the cost of the node of a file with that id
CostOfId(f, id) == _estimate_node_tokens(GetNode(hierarchy[f].nodes, id), config)

FileOfBatch(b) == CHOOSE f \in FileIndices : hierarchy[f].file_path = b.file_group

Oversized(b) ==
    /\ Len(b.node_ids) = 1
    /\ CostOfId(FileOfBatch(b), b.node_ids[1]) > config.max_batch_size

\* C6: a batch of two or more nodes is within max_size; a batch above
\* max_size is one node whose own cost is above max_size.
C6_MaxSize ==
    \A k \in BatchIndices :
        LET b == all_batches[k]
        IN  /\ Len(b.node_ids) >= 2 => b.estimated_tokens <= config.max_batch_size
            /\ b.estimated_tokens > config.max_batch_size => Oversized(b)

\* a group above max_size split into a two-node batch that is exactly full
\* and a batch of the node that no longer fitted
C6_Witness ==
    /\ stage = "Ordered"
    /\ ValidConfig(config)
    /\ Len(hierarchy) = 1
    /\ Len(all_batches) = 2
    /\ \E k \in BatchIndices :
          /\ Len(all_batches[k].node_ids) = 2
          /\ all_batches[k].estimated_tokens = config.max_batch_size
    /\ \E k \in BatchIndices : Len(all_batches[k].node_ids) = 1

\* the batch of a file created last
LastCreated(b) ==
    \A k \in BatchIndices :
        all_batches[k].file_group = b.file_group
        => all_batches[k].batch_id <= b.batch_id

\* C7: a batch is at least min_size, unless it is one oversized node or the
\* last batch created for its file.
C7_MinSize ==
    ValidConfig(config) =>
        \A k \in BatchIndices :
            LET b == all_batches[k]
            IN  \/ b.estimated_tokens >= config.min_batch_size
                \/ Oversized(b)
                \/ LastCreated(b)

\* C8: a selected node whose cost is above max_size is in one batch, alone.
C8_OversizedAlone ==
    stage = "Ordered" =>
        \A f \in FileIndices :
            \A n \in NodesWithStatus(f, {"missing", "outdated"}) :
                LET id == hierarchy[f].nodes[n].id
                IN  CostOfId(f, id) > config.max_batch_size
                    => /\ Occurrences(f, id) = 1
                       /\ \A k \in BatchesOfFile(f) :
                             id \in IdsOf(all_batches[k])
                             => all_batches[k].node_ids = <<id>>

\* an oversized node between two nodes of its group that fit
C8_Witness ==
    /\ stage = "Ordered"
    /\ Len(hierarchy) = 1
    /\ Len(hierarchy[1].nodes) = 3
    /\ \A n \in 1..3 : hierarchy[1].nodes[n].type = "paragraph"
    /\ CostOfId(1, hierarchy[1].nodes[1].id) <= config.max_batch_size
    /\ CostOfId(1, hierarchy[1].nodes[2].id) > config.max_batch_size
    /\ CostOfId(1, hierarchy[1].nodes[3].id) <= config.max_batch_size
    /\ \E k \in BatchIndices :
          all_batches[k].node_ids = <<hierarchy[1].nodes[2].id>>

\* the place of a node id in its file
PlaceOf(f, id) == CHOOSE k \in 1..Len(hierarchy[f].nodes) : hierarchy[f].nodes[k].id = id

\* every node of batch a comes before every node of batch b in the file
PrecedesInDocument(a, b) ==
    /\ a.file_group = b.file_group
    /\ \A x \in IdsOf(a), y \in IdsOf(b) :
          PlaceOf(FileOfBatch(a), x) < PlaceOf(FileOfBatch(b), y)

BatchWithId(id) == all_batches[CHOOSE k \in BatchIndices : all_batches[k].batch_id = id]

\* b depends on the batch with that id through at most n links
RECURSIVE DependsWithin(_, _, _)
DependsWithin(b, id, n) ==
    /\ n > 0
    /\ \E d \in 1..Len(b.dependencies) :
          \/ b.dependencies[d] = id
          \/ DependsWithin(BatchWithId(b.dependencies[d]), id, n - 1)

\* C9: of two batches of a file, the later in document order depends on the
\* earlier, directly or through a chain.
C9_DependenciesFollowDocument ==
    stage = "Ordered" =>
        \A i, j \in BatchIndices :
            PrecedesInDocument(all_batches[i], all_batches[j])
            => DependsWithin(all_batches[j], all_batches[i].batch_id,
                             Len(all_batches))

\* C10: an optimizer whose sizes violate min <= target <= max is never
\* constructed, so none performs a run.
C10_InvalidConfigNeverRuns ==
    stage # "none" => ValidConfig(config)

\* the nodes of the hierarchy that await translation (Missing or Fuzzy)
EligibleNodes ==
    {<<f, k>> \in FileIndices \X (1..MaxSrc + MaxNodes) :
        /\ k <= Len(hierarchy[f].nodes)
        /\ hierarchy[f].nodes[k].status \in {"missing", "fuzzy", "outdated"}}

\* C11: when the hierarchy is empty or every node of it is translated, a run
\* of optimize_hierarchy ends without an error and returns no batch (and the
\* default metrics).
C11_EmptyResultNoError ==
    (stage \in {"Finalizing", "Ordered", "Failed"} /\ EligibleNodes = {})
    => /\ stage # "Failed"
       /\ all_batches = <<>>
       /\ stage = "Ordered"
          => /\ returned # <<>>
             /\ returned[Len(returned)].batches = <<>>
             /\ returned[Len(returned)].metrics = OptimizationMetrics

\* a run that returned on a hierarchy whose only node is translated
C11_Witness ==
    /\ stage = "Ordered"
    /\ Len(hierarchy) = 1
    /\ Len(hierarchy[1].nodes) = 1
    /\ hierarchy[1].nodes[1].status = "exact"
    /\ returned # <<>>
    /\ returned[1].batches = <<>>

\* a run that returned on the empty hierarchy
C11_WitnessEmpty ==
    /\ stage = "Ordered"
    /\ hierarchy = <<>>
    /\ returned # <<>>

(***************************************************************************)
(* Properties of the builder                                               *)
(***************************************************************************)
\* the ids reached from a node by at most n parent links
RECURSIVE Ancestors(_, _, _)
Ancestors(nodes, id, n) ==
    IF n = 0 THEN {}
    ELSE LET p == GetNode(nodes, id).parent_id
         IN  IF p = 0 \/ GetNode(nodes, p) = NoSection THEN {}
             ELSE {p} \cup Ancestors(nodes, p, n - 1)

\* C12: in every file of a built hierarchy a parent_id is None or the id of
\* a node of the same file, and no node is among its own ancestors.
C12_TreeWellFormed ==
    \A f \in FileIndices :
        LET nodes == hierarchy[f].nodes
        IN  \A k \in 1..Len(nodes) :
                /\ \/ nodes[k].parent_id = 0
                   \/ \E j \in 1..Len(nodes) : nodes[j].id = nodes[k].parent_id
                /\ nodes[k].id \notin Ancestors(nodes, nodes[k].id, Len(nodes))

\* a paragraph under a section that is itself under a section
C12_Witness ==
    /\ pc = "built"
    /\ Len(hierarchy) = 1
    /\ Len(hierarchy[1].nodes) = 3
    /\ hierarchy[1].nodes[1].parent_id = 0
    /\ hierarchy[1].nodes[2].parent_id = hierarchy[1].nodes[1].id
    /\ hierarchy[1].nodes[3].parent_id = hierarchy[1].nodes[2].id
    /\ hierarchy[1].nodes[3].type = "paragraph"

\* the files whose tree holds a node with that id
FilesHolding(id) ==
    {f \in FileIndices :
        \E k \in 1..Len(hierarchy[f].nodes) : hierarchy[f].nodes[k].id = id}

\* C13: each source node given to the builder is in the tree of its own
\* file and in no other, total_nodes is the number of correspondences, and
\* every file has a root.
C13_OneTreePerNode ==
    pc = "built" =>
        /\ \A k \in 1..Len(mappings) :
               LET node == mappings[k].source_node
               IN  /\ Cardinality(FilesHolding(node.id)) = 1
                   /\ \A f \in FilesHolding(node.id) :
                          /\ hierarchy[f].file_path = node.file_path
                          /\ Cardinality({j \in 1..Len(hierarchy[f].nodes) :
                                 hierarchy[f].nodes[j].id = node.id}) = 1
        /\ total_nodes(hierarchy) = Len(mappings)
        /\ \A f \in FileIndices :
               Len(hierarchy[f].nodes) >= 1 => hierarchy[f].root_node_ids # <<>>

\* two files whose nodes alternate in the list of correspondences
C13_Witness ==
    /\ pc = "built"
    /\ Len(mappings) = 3
    /\ Len(hierarchy) = 2
    /\ mappings[1].source_node.file_path = mappings[3].source_node.file_path
    /\ mappings[2].source_node.file_path # mappings[1].source_node.file_path
    /\ Len(hierarchy[1].nodes) = 2
    /\ Len(hierarchy[1].root_node_ids) = 1

\* section_stack after the first i nodes of a file have been walked
StackAfter(nodes, i) ==
    RelationshipWalk(SubSeq(nodes, 1, i), 1,
                     [stack |-> <<>>, parent |-> <<>>]).stack

StrictlyIncreasingLevels(stack) ==
    \A a, b \in 1..Len(stack) : a < b => stack[a][2] < stack[b][2]

\* C20: after every node of the builder's walk over a file the levels on
\* the section stack increase strictly from bottom to top (a section
\* without a level has level 0).
C20_StackLevelsIncrease ==
    pc \in {"matched", "built"} =>
        LET fg == _group_by_file(mappings)
        IN  \A j \in 1..Len(fg) : \A i \in 0..Len(fg[j].nodes) :
                StrictlyIncreasingLevels(StackAfter(fg[j].nodes, i))

\* a walk that holds two sections and then meets a section of the level
\* of the upper one
C20_Witness ==
    /\ pc = "built"
    /\ Len(hierarchy) = 1
    /\ Len(source_nodes) = 3
    /\ Len(StackAfter(source_nodes, 2)) = 2
    /\ source_nodes[3].type = "section"
    /\ source_nodes[3].level = source_nodes[2].level
    /\ Len(StackAfter(source_nodes, 3)) = 2

(***************************************************************************)
(* Properties of repeated runs                                             *)
(***************************************************************************)
\* C14: every call of optimize_hierarchy on one optimizer with the same
\* hierarchy returns the same batch list: batch ids, node ids, sizes,
\* priorities and dependencies.
C14_RunIsFunctionOfInput ==
    \A i, j \in 1..Len(returned) : returned[i].batches = returned[j].batches

(***************************************************************************)
(* Properties of the tree of a file                                        *)
(***************************************************************************)
\* the places before k of the sections that can be the parent of nodes[k]
SectionsAbove(nodes, k) ==
    {j \in 1..(k - 1) :
        /\ nodes[j].type = "section"
        /\ nodes[k].type = "section" => nodes[j].level < nodes[k].level}

\* C21: in the tree of a file the parent of a section of level L is the
\* nearest preceding section of a lower level, the parent of any other
\* node is the nearest preceding section, a node without such a section
\* is a root, and children_ids of a node lists exactly the nodes whose
\* parent it is, in document order.
C21_ParentIsNearestSection ==
    \A f \in FileIndices :
        LET nodes == hierarchy[f].nodes
        IN  \A k \in 1..Len(nodes) :
                LET above == SectionsAbove(nodes, k)
                    kids == {c \in 1..Len(nodes) :
                                nodes[c].parent_id = nodes[k].id}
                IN  /\ nodes[k].parent_id =
                          IF above = {} THEN 0
                          ELSE nodes[CHOOSE j \in above :
                                         \A x \in above : x <= j].id
                    /\ Len(nodes[k].children_ids) = Cardinality(kids)
                    /\ \A c \in kids : \E p \in 1..Len(nodes[k].children_ids) :
                           nodes[k].children_ids[p] = nodes[c].id
                    /\ \A p, q \in 1..Len(nodes[k].children_ids) :
                           p < q => \E c, d \in kids :
                               /\ c < d
                               /\ nodes[c].id = nodes[k].children_ids[p]
                               /\ nodes[d].id = nodes[k].children_ids[q]
                    /\ \A g \in 1..Len(nodes) : \A p \in 1..Len(nodes[g].children_ids) :
                           nodes[g].children_ids[p] = nodes[k].id
                               => nodes[g].id = nodes[k].parent_id

\* a section of level 1 followed by a section of level 2 and a paragraph:
\* the paragraph is under the second section, which is under the first
C21_Witness ==
    /\ pc = "built"
    /\ Len(hierarchy) = 1
    /\ Len(hierarchy[1].nodes) = 3
    /\ hierarchy[1].nodes[1].type = "section"
    /\ hierarchy[1].nodes[1].level = 1
    /\ hierarchy[1].nodes[2].type = "section"
    /\ hierarchy[1].nodes[2].level = 2
    /\ hierarchy[1].nodes[3].type = "paragraph"
    /\ hierarchy[1].nodes[3].parent_id = hierarchy[1].nodes[2].id
    /\ hierarchy[1].nodes[1].children_ids = <<hierarchy[1].nodes[2].id>>

(***************************************************************************)
(* The consumed-target set                                                 *)
(***************************************************************************)
\* the structural candidate of the i-th source node was rejected as a copy
RejectedAsCopy(i) ==
    LET c == StructuralMatch(source_nodes[i], _build_node_index(target_nodes),
                             UsedBefore(i))
    IN  /\ c # None
        /\ _calculate_similarity(source_nodes[i].content, c.content)
               > CopyThreshold

\* C28: at every point of a matcher run used_targets is exactly the set of
\* the target ids linked by the correspondences emitted so far, and a
\* structural candidate rejected as an untranslated copy is not consumed
\* by the rejection.
C28_ConsumedAreLinked ==
    /\ used_targets = {mappings[k].target_node.id :
                          k \in {j \in 1..Len(mappings) : Linked(mappings[j])}}
    /\ \A i \in 1..Len(mappings) :
           RejectedAsCopy(i) =>
               LET c == StructuralMatch(source_nodes[i],
                                        _build_node_index(target_nodes),
                                        UsedBefore(i))
               IN  /\ ~Linked(mappings[i])
                   /\ (i = Len(mappings) /\ c.id \notin UsedBefore(i))
                          => c.id \notin used_targets

\* the candidate of the first source node, rejected as a copy, is linked
\* to the second source node
C28_Witness ==
    /\ Len(mappings) = 2
    /\ RejectedAsCopy(1)
    /\ Linked(mappings[2])
    /\ mappings[2].target_node =
           StructuralMatch(source_nodes[1], _build_node_index(target_nodes),
                           {})

(***************************************************************************)
(* Dependencies in a returned list                                         *)
(***************************************************************************)
\* C29: in every list returned by optimize_hierarchy a batch has at most
\* one dependency, which is the id of a batch of its file_group earlier in
\* the list, and the first batch of each file in the list has none.
C29_DependenciesPointBack ==
    \A r \in 1..Len(returned) :
        LET bs == returned[r].batches
        IN  \A k \in 1..Len(bs) :
                /\ Len(bs[k].dependencies) <= 1
                /\ \A d \in 1..Len(bs[k].dependencies) :
                       \E j \in 1..(k - 1) :
                           /\ bs[j].batch_id = bs[k].dependencies[d]
                           /\ bs[j].file_group = bs[k].file_group
                /\ (\A j \in 1..(k - 1) : bs[j].file_group # bs[k].file_group)
                       => bs[k].dependencies = <<>>

\* a returned list in which the batch created second comes first and the
\* batch created first depends on it
C29_Witness ==
    /\ Len(returned) >= 1
    /\ LET bs == returned[1].batches
       IN  /\ Len(bs) >= 2
           /\ bs[1].batch_id > bs[2].batch_id
           /\ bs[1].file_group = bs[2].file_group
           /\ bs[1].dependencies = <<>>
           /\ bs[2].dependencies = <<bs[1].batch_id>>

(***************************************************************************)
(* Semantic groups                                                         *)
(***************************************************************************)
\* the group that holds the k-th node of the concatenation of the groups
RECURSIVE GroupOf(_, _)
GroupOf(gs, k) ==
    IF k <= Len(Head(gs)) THEN 1
    ELSE 1 + GroupOf(Tail(gs), k - Len(Head(gs)))

\* the nearest enclosing section of a node of a file: the node itself if
\* it is a section, else the nearest section before it in the file
EnclosingSection(nodes, node) ==
    IF node.type = "section" THEN node
    ELSE LET p == CHOOSE k \in 1..Len(nodes) : nodes[k].id = node.id
             S == {j \in 1..(p - 1) : nodes[j].type = "section"}
         IN  IF S = {} THEN NoSection
             ELSE nodes[CHOOSE j \in S : \A x \in S : x <= j]

\* C22: the semantic groups of a file are consecutive runs of its selected
\* nodes; two consecutive selected nodes are in one group exactly when the
\* later one is no section and both have the same nearest enclosing
\* section; a group holds at most one section, as its first node.
C22_GroupsAreMaximalRuns ==
    stage = "Merging" =>
        LET nodes == hierarchy[file_idx].nodes
            sel == _get_translatable_nodes(nodes)
        IN  /\ _flatten_groups(groups) = sel
            /\ \A g \in 1..Len(groups) :
                   /\ groups[g] # <<>>
                   /\ \A k \in 2..Len(groups[g]) :
                          groups[g][k].type # "section"
            /\ \A k \in 1..(Len(sel) - 1) :
                   GroupOf(groups, k) = GroupOf(groups, k + 1)
                       <=> /\ sel[k + 1].type # "section"
                           /\ EnclosingSection(nodes, sel[k])
                                  = EnclosingSection(nodes, sel[k + 1])

\* two selected paragraphs that follow each other among the selected nodes
\* and are in different groups, a translated section lying between them
C22_Witness ==
    /\ stage = "Merging"
    /\ Len(hierarchy[file_idx].nodes) = 3
    /\ hierarchy[file_idx].nodes[2].type = "section"
    /\ hierarchy[file_idx].nodes[2].status = "exact"
    /\ Len(groups) = 2
    /\ groups[1][1].type = "paragraph"
    /\ groups[2][1].type = "paragraph"

\* a selected section and the selected paragraph under it in one group
C22_WitnessJoined ==
    /\ stage = "Merging"
    /\ Len(groups) = 1
    /\ Len(groups[1]) = 2
    /\ groups[1][1].type = "section"
    /\ groups[1][2].parent_id = groups[1][1].id

(***************************************************************************)
(* The pending buffer of the merge                                         *)
(***************************************************************************)
\* the state of the loop of _merge_small_groups after the first k groups
MergeAfter(k) ==
    MergeWalk(SubSeq(groups, 1, k), config, 1,
              [optimized |-> <<>>, pending_merge |-> <<>>,
               pending_tokens |-> 0])

\* C23: with min_size <= target_size <= max_size, after every group the
\* merge has processed the cost of the pending buffer is below target_size
\* and at most max_size; a group whose cost is at least min_size is
\* emitted as it is, after the buffer pending before it, and leaves the
\* buffer empty.
C23_PendingBelowTarget ==
    (stage = "Merging" /\ ValidConfig(config)) =>
        \A k \in 1..Len(groups) :
            LET before == MergeAfter(k - 1)
                after == MergeAfter(k)
                n == Len(after.optimized)
            IN  /\ after.pending_tokens
                       = _estimate_group_tokens(
                             _flatten_groups(after.pending_merge), config)
                /\ after.pending_tokens < config.target_batch_size
                /\ after.pending_tokens <= config.max_batch_size
                /\ _estimate_group_tokens(groups[k], config)
                       >= config.min_batch_size
                   => /\ after.pending_merge = <<>>
                      /\ n >= 1
                      /\ after.optimized[n] = groups[k]
                      /\ \E p \in 1..Len(_merge_small_groups(groups, config)) :
                             _merge_small_groups(groups, config)[p] = groups[k]
                      /\ before.pending_merge # <<>>
                         => /\ n >= 2
                            /\ after.optimized[n - 1]
                                   = _flatten_groups(before.pending_merge)
                            /\ Len(before.optimized) = n - 2

\* two small groups pending below the target, then a group of at least
\* min_size that flushes them and is emitted alone
C23_Witness ==
    /\ stage = "Merging"
    /\ ValidConfig(config)
    /\ Len(groups) = 3
    /\ Len(MergeAfter(2).pending_merge) = 2
    /\ MergeAfter(2).pending_tokens > 0
    /\ _estimate_group_tokens(groups[3], config) >= config.min_batch_size
    /\ Len(MergeAfter(3).optimized) = 2

(***************************************************************************)
(* The nodes of the batches of a file                                      *)
(***************************************************************************)
\* the node ids of the batches of a file whose batch id is at least id,
\* concatenated by ascending batch id
RECURSIVE IdsFromBatch(_, _)
IdsFromBatch(f, id) ==
    IF id > _batch_counter THEN <<>>
    ELSE LET S == {k \in BatchIndices :
                      /\ all_batches[k].batch_id = id
                      /\ all_batches[k].file_group = hierarchy[f].file_path}
         IN  (IF S = {} THEN <<>> ELSE all_batches[CHOOSE k \in S : TRUE].node_ids)
             \o IdsFromBatch(f, id + 1)

\* the ids of the nodes of a file the eligibility step selects
SelectedIds(f) ==
    LET sel == _get_translatable_nodes(hierarchy[f].nodes)
    IN  [k \in 1..Len(sel) |-> sel[k].id]

\* C24: the semantic groups, the merged groups and, once the run has
\* returned, the batches of a file in order of creation, concatenated,
\* are the sequence of the selected nodes of the file in document order,
\* each node once.
C24_OrderAndMultiplicityKept ==
    /\ stage \in {"Merging", "Splitting"} =>
           _flatten_groups(groups)
               = _get_translatable_nodes(hierarchy[file_idx].nodes)
    /\ stage = "Ordered" =>
           \A f \in FileIndices : IdsFromBatch(f, 1) = SelectedIds(f)

\* a file with a translated node and two selected nodes, the second of
\* which was pending when the merge ended and is the file's last batch
C24_Witness ==
    /\ stage = "Ordered"
    /\ Len(hierarchy) = 1
    /\ Len(hierarchy[1].nodes) = 3
    /\ hierarchy[1].nodes[2].status = "exact"
    /\ Len(all_batches) = 2
    /\ \E k \in BatchIndices :
          /\ all_batches[k].batch_id = 2
          /\ all_batches[k].node_ids = <<hierarchy[1].nodes[3].id>>
          /\ all_batches[k].estimated_tokens < config.min_batch_size

(***************************************************************************)
(* The metrics report                                                      *)
(***************************************************************************)
\* C30: after any run of optimize_hierarchy, a run without batches
\* included, get_metrics_report returns a report and raises nothing.
C30_ReportNeverRaises ==
    pc # "raised"

(***************************************************************************)
(* Calls interleaved on one builder                                        *)
(***************************************************************************)
\* C27: each of two build_hierarchy calls interleaved on one
\* HierarchyBuilder returns what it returns when executed alone, and no
\* node of one call's mappings is in the hierarchy the other call returns.
C27_RunsAreIsolated ==
    \A r \in DOMAIN runs :
        runs[r].pc = "returned" =>
            /\ runs[r].hierarchy = build_hierarchy(runs[r].mappings)
            /\ \A q \in DOMAIN runs \ {r} :
                   \A f \in 1..Len(runs[r].hierarchy) :
                       \A k \in 1..Len(runs[r].hierarchy[f].nodes) :
                           \A j \in 1..Len(runs[q].mappings) :
                               runs[r].hierarchy[f].nodes[k].id
                                   # runs[q].mappings[j].source_node.id

(***************************************************************************)
(* Termination of a run                                                    *)
(***************************************************************************)
\* C26: on every hierarchy, those with a parent_id that names no node or
\* with parent_id links that form a cycle included, a run of
\* optimize_hierarchy reaches the state Ordered and returns its batches.
C26_RunReachesOrdered ==
    <>(stage = "Ordered")

(***************************************************************************)
(* Context of a node                                                       *)
(***************************************************************************)
\* a node whose text may be part of a context
InContext(node) == node.type # "section" /\ node.type # "code_block"

\* the places of the nearest such nodes before and after place k, at most
\* window of them
NearestBefore(nodes, k, window) ==
    LET E == {j \in 1..(k - 1) : InContext(nodes[j])}
    IN  {j \in E : Cardinality({x \in E : x > j}) < window}

NearestAfter(nodes, k, window) ==
    LET E == {j \in (k + 1)..Len(nodes) : InContext(nodes[j])}
    IN  {j \in E : Cardinality({x \in E : x < j}) < window}

RECURSIVE Ascending(_)
Ascending(S) ==
    IF S = {} THEN <<>>
    ELSE LET m == CHOOSE x \in S : \A y \in S : x <= y
         IN  <<m>> \o Ascending(S \ {m})

\* text is made of the truncated texts of nodes at places of S, in order
MadeOf(text, nodes, S) ==
    \E T \in SUBSET S :
        text = Join([i \in 1..Cardinality(T) |->
                        Truncated(nodes[Ascending(T)[i]].source)])

\* C25: after build_hierarchy, and after a run of optimize_hierarchy with
\* context enabled, preceding_text (following_text) of a node is made only
\* of the text of the nearest preceding (following) nodes of the file that
\* are neither section nor code block, at most window_size of them.
C25_ContextFromNearestNeighbours ==
    pc = "built" =>
        \A f \in FileIndices : \A k \in 1..Len(hierarchy[f].nodes) :
            LET nodes == hierarchy[f].nodes
            IN  /\ MadeOf(contexts[f][k].preceding_text, nodes,
                          NearestBefore(nodes, k, context_window))
                /\ MadeOf(contexts[f][k].following_text, nodes,
                          NearestAfter(nodes, k, context_window))

====
